---- MODULE Spec2Model ----
(***************************************************************************)
(* A model of the AI-orchestrated analysis pipeline of the CSV Data        *)
(* Analysis Agent: the zustand store (chatSlice, dataSlice), the action    *)
(* validator (toolValidator), the data processor (executePlan,             *)
(* executeJavaScriptDataTransform, profileData) and the data-preparation   *)
(* self-correction loop (generateDataPreparationPlan).                     *)
(*                                                                         *)
(* One handler runs at a time: a user handler starts only when no handler  *)
(* is in flight (hc = "idle") and the UI lets it (isBusy = FALSE).  The    *)
(* awaited calls of a handler (model, memory, storage) are separate steps. *)
(***************************************************************************)
EXTENDS Integers, Sequences, FiniteSets, TLC

(***************************************************************************)
(* Bounds of the model.                                                    *)
(***************************************************************************)
\* Longest batch of actions a model response carries.
MaxBatchLen == 2
\* User inputs (file uploads, chat messages and clarification answers) per
\* session.
MaxInputs == 2

\* The rows of a dataset handed to a function taken by itself.
MaxRows == 3

\* The aggregated rows handed to applyTopNWithOthers, and its N.
MaxAggregatedRows == 4

MaxTopN == 4

\* The plans of an array that is written as JSON and parsed.
MaxPlans == 2

(***************************************************************************)
(* Program constants.                                                      *)
(***************************************************************************)
\* for (let i = 0; i <= 2; i++): the last attempt index of a chat turn.
LastAttempt == 2
\* for (let i = 0; i < 3; i++): plan requests of generateDataPreparationPlan.
PrepAttempts == 3
\* dataForAnalysis.data.slice(0, 20): rows of the dry-run sample.
SampleRows == 20

\* JavaScript's null / undefined for object-valued fields.
Null == [null |-> TRUE]

Range(s) == {s[i] : i \in DOMAIN s}

Take(s, n) == SubSeq(s, 1, IF n < Len(s) THEN n ELSE Len(s))

\* const name = v; ...: the value is computed once and named.  (TLC expands
\* a LET definition at each of its uses while it evaluates ENABLED.)
With(v, F(_)) == CHOOSE r \in {F(x) : x \in {v}} : TRUE

(***************************************************************************)
(* Cells, rows and datasets.  A cell is a string, kept as the tuple of its *)
(* characters so that parsing is computed; a row maps column names to      *)
(* cells (a column the row does not have reads as undefined).              *)
(***************************************************************************)
Digits == <<"0", "1", "2", "3", "4", "5", "6", "7", "8", "9">>

DigitValue(c) == (CHOOSE i \in DOMAIN Digits : Digits[i] = c) - 1

IsDigit(c) == c \in Range(Digits)

\* String.prototype.trim on a tuple of characters.
RECURSIVE TrimLeft(_)
TrimLeft(s) == IF s # <<>> /\ Head(s) = " " THEN TrimLeft(Tail(s)) ELSE s

RECURSIVE TrimRight(_)
TrimRight(s) ==
    IF s # <<>> /\ s[Len(s)] = " " THEN TrimRight(SubSeq(s, 1, Len(s) - 1)) ELSE s

Trim(s) == TrimRight(TrimLeft(s))

IsCurrencyChar(c) == c \in {"$", "EUR", ","}

RECURSIVE DecimalValue(_)
DecimalValue(s) ==
    IF s = <<>> THEN 0
    ELSE 10 * DecimalValue(SubSeq(s, 1, Len(s) - 1)) + DigitValue(s[Len(s)])

\* Number(cleanedString) over the alphabet of the model: the empty string is
\* 0, a run of digits is its value, anything else is NaN.
IsNaN(s) == \E i \in DOMAIN s : ~IsDigit(s[i])

\* parseNumericValue: Null for a missing, empty or unparsable cell, else
\* [num |-> n].
parseNumericValue(value) ==
    IF value = Null THEN Null
    ELSE IF Trim(value.chars) = <<>> THEN Null
    ELSE With(Trim(SelectSeq(value.chars, LAMBDA c : ~IsCurrencyChar(c))),
              LAMBDA cleanedString :
                  IF IsNaN(cleanedString) THEN Null
                  ELSE [num |-> DecimalValue(cleanedString)])

Cell(chars) == [chars |-> chars]

\* row[column]
Get(row, column) == IF column \in DOMAIN row THEN row[column] ELSE Null

\* String(row[column]) as a tuple of characters.
StringOf(value) ==
    IF value = Null THEN <<"u", "n", "d", "e", "f", "i", "n", "e", "d">>
    ELSE value.chars

(***************************************************************************)
(* profileData.                                                            *)
(***************************************************************************)
\* The CSV header order: Object.keys(data[0]) lists the columns of the first
\* row in this order.
Columns == <<"Region", "Sales">>

Headers(data) == SelectSeq(Columns, LAMBDA h : h \in DOMAIN data[1])

\* The first loop of profileData: every cell that is not blank parses.
IsNumericalColumn(data, header) ==
    /\ \A i \in DOMAIN data :
          LET value == Get(data[i], header)
          IN  Trim(StringOf(value)) # <<>> => parseNumericValue(value) # Null
    /\ \E i \in DOMAIN data : Trim(StringOf(Get(data[i], header))) # <<>>

NumericValues(data, header) ==
    With([i \in DOMAIN data |-> parseNumericValue(Get(data[i], header))],
         LAMBDA parsed : SelectSeq(parsed, LAMBDA v : v # Null))

SetMin(S) == CHOOSE x \in S : \A y \in S : x <= y

SetMax(S) == CHOOSE x \in S : \A y \in S : x >= y

ColumnProfileOf(data, header) ==
    IF IsNumericalColumn(data, header)
    THEN With(NumericValues(data, header), LAMBDA values :
             With({v.num : v \in Range(values)}, LAMBDA nums :
                 [name |-> header, type |-> "numerical",
                  valueRange |-> <<SetMin(nums), SetMax(nums)>>,
                  uniqueValues |-> 0,
                  missing |-> Len(data) - Len(values),
                  rows |-> Len(data)]))
    ELSE [name |-> header, type |-> "categorical",
          valueRange |-> <<0, 0>>,
          uniqueValues |->
              Cardinality({StringOf(Get(data[i], header)) : i \in DOMAIN data}),
          missing |->
              Cardinality({i \in DOMAIN data :
                              LET v == Get(data[i], header)
                              IN  v = Null \/ Trim(StringOf(v)) = <<>>}),
          rows |-> Len(data)]

profileData(data) ==
    IF Len(data) = 0 THEN <<>>
    ELSE With(Headers(data), LAMBDA headers :
             [k \in DOMAIN headers |-> ColumnProfileOf(data, headers[k])])

(***************************************************************************)
(* Analysis plans and executePlan.  A field the plan does not carry is "". *)
(***************************************************************************)
Plan(chartType, title, aggregation, groupByColumn, valueColumn) ==
    [chartType |-> chartType, title |-> title, aggregation |-> aggregation,
     groupByColumn |-> groupByColumn, valueColumn |-> valueColumn,
     xValueColumn |-> "", yValueColumn |-> "",
     secondaryValueColumn |-> "", secondaryAggregation |-> ""]

ALLOWED_AGGREGATIONS == {"sum", "count", "avg"}

\* The keys of `groups` in the order the rows first produce them; a row whose
\* key stringifies to 'undefined' or 'null' is skipped.
SkippedKeys == {<<"u", "n", "d", "e", "f", "i", "n", "e", "d">>, <<"n", "u", "l", "l">>}

RECURSIVE GroupKeys(_, _)
GroupKeys(data, groupByColumn) ==
    IF data = <<>> THEN <<>>
    ELSE LET before == GroupKeys(SubSeq(data, 1, Len(data) - 1), groupByColumn)
             groupKey == StringOf(Get(data[Len(data)], groupByColumn))
         IN  IF groupKey \in SkippedKeys \/ groupKey \in Range(before)
             THEN before
             ELSE Append(before, groupKey)

\* A property name that is a canonical array index: for..in lists these
\* first, in ascending numeric order, before the other keys.
IsIndexKey(key) ==
    /\ key # <<>>
    /\ \A i \in DOMAIN key : IsDigit(key[i])
    /\ (Len(key) = 1 \/ key[1] # "0")

RECURSIVE SortAscending(_)
SortAscending(S) ==
    IF S = {} THEN <<>>
    ELSE LET m == CHOOSE k \in S : \A o \in S : DecimalValue(k) <= DecimalValue(o)
         IN  <<m>> \o SortAscending(S \ {m})

ForInOrder(keys) ==
    With({k \in Range(keys) : IsIndexKey(k)}, LAMBDA indexKeys :
        SortAscending(indexKeys) \o SelectSeq(keys, LAMBDA k : ~IsIndexKey(k)))

\* A grouping that pushes 0 for a cell that does not parse.
GroupValues_ZeroForUnparsable(data, plan, key) ==
    With(SelectSeq(data, LAMBDA r : StringOf(Get(r, plan.groupByColumn)) = key),
         LAMBDA rows :
             [i \in DOMAIN rows |->
                 IF parseNumericValue(Get(rows[i], plan.valueColumn)) = Null THEN 0
                 ELSE parseNumericValue(Get(rows[i], plan.valueColumn)).num])

\* groups[key]: the values pushed for the rows of one group.
GroupValues(data, plan, key) ==
    With(SelectSeq(data, LAMBDA r : StringOf(Get(r, plan.groupByColumn)) = key),
         LAMBDA rows :
             IF plan.valueColumn # ""
             THEN With(NumericValues(rows, plan.valueColumn),
                       LAMBDA kept : [i \in DOMAIN kept |-> kept[i].num])
             ELSE IF plan.aggregation = "count" THEN [i \in DOMAIN rows |-> 1]
             ELSE <<>>)

RECURSIVE SumSeq(_)
SumSeq(s) == IF s = <<>> THEN 0 ELSE Head(s) + SumSeq(Tail(s))

\* A result value is the fraction n/d (d > 0): avg divides.
ResultValue(aggregation, values) ==
    CASE aggregation = "sum" -> [n |-> SumSeq(values), d |-> 1]
      [] aggregation = "count" -> [n |-> Len(values), d |-> 1]
      [] aggregation = "avg" ->
            IF Len(values) > 0 THEN [n |-> SumSeq(values), d |-> Len(values)]
            ELSE [n |-> 0, d |-> 1]

Greater(a, b) == a.n * b.d > b.n * a.d

\* Array.prototype.sort((a, b) => b - a): stable, descending.
RECURSIVE InsertDescending(_, _)
InsertDescending(sorted, row) ==
    IF sorted = <<>> THEN <<row>>
    ELSE IF Greater(row.value, Head(sorted).value)
         THEN <<row>> \o sorted
         ELSE <<Head(sorted)>> \o InsertDescending(Tail(sorted), row)

RECURSIVE SortDescending(_)
SortDescending(rows) ==
    IF rows = <<>> THEN <<>>
    ELSE With(SortDescending(SubSeq(rows, 1, Len(rows) - 1)),
              LAMBDA sorted : InsertDescending(sorted, rows[Len(rows)]))

\* The values of aggregated rows added up from 0, as reduce does.
RECURSIVE SumValues(_)
SumValues(rows) ==
    IF rows = <<>> THEN [n |-> 0, d |-> 1]
    ELSE With(SumValues(SubSeq(rows, 1, Len(rows) - 1)), LAMBDA acc :
             [n |-> acc.n * rows[Len(rows)].value.d + rows[Len(rows)].value.n * acc.d,
              d |-> acc.d * rows[Len(rows)].value.d])

\* A collapse that keeps N rows beside the 'Others' row.
applyTopNWithOthers_KeepN(data, topN) ==
    IF Len(data) <= topN THEN data
    ELSE With(SortDescending(data), LAMBDA sortedData :
             Append(SubSeq(sortedData, 1, topN),
                    [key |-> <<"Others">>,
                     value |-> SumValues(SubSeq(sortedData, topN + 1, Len(sortedData)))]))

\* applyTopNWithOthers over aggregated rows [key, value]; groupByKey and
\* valueKey name the two fields of such a row.
applyTopNWithOthers(data, topN) ==
    IF Len(data) <= topN THEN data
    ELSE With(SortDescending(data), LAMBDA sortedData :
         With(SubSeq(sortedData, 1, topN - 1), LAMBDA topData :
         With(SubSeq(sortedData, topN, Len(sortedData)), LAMBDA otherData :
             IF Len(otherData) > 0
             THEN Append(topData, [key |-> <<"Others">>, value |-> SumValues(otherData)])
             ELSE topData)))

\* executePlan: [ok |-> TRUE, rows |-> the aggregated rows], or
\* [ok |-> FALSE] when it throws 'Unsupported aggregation type'.
Aggregated(data, plan, keys) ==
    [k \in DOMAIN keys |->
        [key |-> keys[k],
         value |-> With(GroupValues(data, plan, keys[k]),
                        LAMBDA values : ResultValue(plan.aggregation, values))]]

executePlan(data, plan) ==
    With(GroupKeys(data, plan.groupByColumn), LAMBDA groups :
    With(ForInOrder(groups), LAMBDA keys :
        IF keys # <<>> /\ plan.aggregation \notin ALLOWED_AGGREGATIONS
        THEN [ok |-> FALSE, rows |-> <<>>]
        ELSE [ok |-> TRUE,
              rows |-> With(Aggregated(data, plan, keys),
                            LAMBDA rows : SortDescending(rows))]))

(***************************************************************************)
(* AiAction and the action validator (toolValidator).  A missing string    *)
(* field is "", a missing cardId is 0, a missing object is Null.           *)
(***************************************************************************)
Action(responseType, thought) ==
    [responseType |-> responseType, thought |-> thought, text |-> "",
     cardId |-> 0, plan |-> Null, domAction |-> Null, code |-> Null,
     args |-> Null, clarification |-> Null]

DomArgs(cardId) ==
    [cardId |-> cardId, newType |-> "", visible |-> "", column |-> "",
     values |-> [isArray |-> FALSE, items |-> <<>>]]

\* One line of the errors text; cardId and cardIds are the identifiers the
\* line quotes (0 and <<>> when it quotes none).
Err(msg) == [msg |-> msg, cardId |-> 0, cardIds |-> <<>>]

ErrCard(msg, cardId, cardIds) == [msg |-> msg, cardId |-> cardId, cardIds |-> cardIds]

When(cond, err) == IF cond THEN <<err>> ELSE <<>>

validatePlanCreation(plan) ==
    IF plan = Null THEN <<Err("The plan object is missing or invalid.")>>
    ELSE
      When(plan.title = "", Err("plan.title is a required string."))
      \o When(plan.chartType = "", Err("plan.chartType is a required string."))
      \o (IF plan.chartType = "scatter" THEN
            When(plan.xValueColumn = "", Err("For scatter plots, xValueColumn is required."))
            \o When(plan.yValueColumn = "", Err("For scatter plots, yValueColumn is required."))
            \o When(plan.aggregation # "", Err("For scatter plots, aggregation must not be provided."))
            \o When(plan.groupByColumn # "", Err("For scatter plots, groupByColumn must not be provided."))
          ELSE IF plan.chartType = "combo" THEN
            When(plan.groupByColumn = "", Err("For combo charts, groupByColumn is required."))
            \o When(plan.valueColumn = "", Err("For combo charts, valueColumn is required."))
            \o When(plan.aggregation = "", Err("For combo charts, aggregation is required."))
            \o When(plan.secondaryValueColumn = "", Err("For combo charts, secondaryValueColumn is required."))
            \o When(plan.secondaryAggregation = "", Err("For combo charts, secondaryAggregation is required."))
            \o When(plan.aggregation # "" /\ plan.aggregation \notin ALLOWED_AGGREGATIONS,
                    Err("Unsupported aggregation type."))
            \o When(plan.secondaryAggregation # ""
                        /\ plan.secondaryAggregation \notin ALLOWED_AGGREGATIONS,
                    Err("Unsupported secondaryAggregation type."))
          ELSE
            When(plan.aggregation = "", Err("For these charts, aggregation is required."))
            \o When(plan.groupByColumn = "", Err("For these charts, groupByColumn is required."))
            \o When(plan.aggregation # "" /\ plan.aggregation \notin ALLOWED_AGGREGATIONS,
                    Err("Unsupported aggregation type."))
            \o When(plan.aggregation # "count" /\ plan.valueColumn = "",
                    Err("For this aggregation, valueColumn is required.")))

\* isValidPlan of the plan generator: TRUE when the plan is kept.
isValidPlan(plan) ==
    IF plan = Null \/ plan.chartType = "" \/ plan.title = "" THEN FALSE
    ELSE IF plan.chartType = "scatter"
    THEN ~(plan.xValueColumn = "" \/ plan.yValueColumn = "")
    ELSE /\ ~(plan.aggregation = "" \/ plan.groupByColumn = "")
         /\ plan.aggregation \in ALLOWED_AGGREGATIONS
         /\ ~(plan.aggregation # "count" /\ plan.valueColumn = "")

\* The tools whose checks read domAction.args without testing it first.
ArgsReadingTools == {"changeCardChartType", "showCardData", "filterCard"}

\* validateDomAction throws a TypeError when such a tool comes without args.
validateDomActionThrows(domAction) ==
    domAction # Null /\ domAction.args = Null /\ domAction.toolName \in ArgsReadingTools

\* A check of the presence of cardId alone.
CardIdErrors_PresenceOnly(domAction, context) ==
    IF domAction.args = Null \/ domAction.args.cardId = 0
    THEN <<Err("domAction.args.cardId is required.")>>
    ELSE <<>>

\* The cardId checks of validateDomAction.
CardIdErrors(domAction, context) ==
    IF domAction.args = Null \/ domAction.args.cardId = 0
    THEN <<Err("domAction.args.cardId is required.")>>
    ELSE When(domAction.args.cardId \notin Range(context.cardIds),
              ErrCard("domAction.args.cardId is invalid. It must be one of the existing card IDs.",
                      domAction.args.cardId, context.cardIds))

validateDomAction(domAction, context) ==
    IF domAction = Null
    THEN <<Err("The domAction object is missing for a dom_action responseType.")>>
    ELSE
      When(domAction.toolName = "", Err("domAction.toolName is required."))
      \o CardIdErrors(domAction, context)
      \o (IF domAction.args = Null THEN <<>>
          ELSE
            When(domAction.toolName = "changeCardChartType" /\ domAction.args.newType = "",
                 Err("For changeCardChartType, domAction.args.newType is required."))
            \o When(domAction.toolName = "showCardData"
                        /\ domAction.args.visible \notin {"true", "false"},
                    Err("For showCardData, domAction.args.visible is required and must be a boolean."))
            \o When(domAction.toolName = "filterCard" /\ domAction.args.column = "",
                    Err("For filterCard, domAction.args.column is required."))
            \o When(domAction.toolName = "filterCard" /\ ~domAction.args.values.isArray,
                    Err("For filterCard, domAction.args.values is required and must be an array.")))

validateExecuteJsCode(code) ==
    IF code = Null
    THEN <<Err("The code object is missing for an execute_js_code responseType.")>>
    ELSE When(code.explanation = "", Err("code.explanation is required."))
         \o When(code.jsFunctionBody = "", Err("code.jsFunctionBody is required."))

validateFilterSpreadsheet(args) ==
    IF args = Null
    THEN <<Err("The args object is missing for a filter_spreadsheet responseType.")>>
    ELSE When(args.query = "", Err("args.query is required."))

RECURSIVE OptionErrors(_)
OptionErrors(options) ==
    IF options = <<>> THEN <<>>
    ELSE When(Head(options).label = "", Err("Option is missing label."))
         \o When(Head(options).value = "", Err("Option is missing value."))
         \o OptionErrors(Tail(options))

validateClarificationRequest(clarification) ==
    IF clarification = Null
    THEN <<Err("The clarification object is missing for a clarification_request responseType.")>>
    ELSE
      When(clarification.question = "", Err("clarification.question is required."))
      \o When(clarification.pendingPlan = Null, Err("clarification.pendingPlan is required."))
      \o When(clarification.targetProperty = "", Err("clarification.targetProperty is required."))
      \o (IF ~clarification.options.isArray \/ clarification.options.items = <<>>
          THEN <<Err("clarification.options must be a non-empty array.")>>
          ELSE OptionErrors(clarification.options.items))

validateTextResponse(action, context) ==
    When(action.text = "", Err("The text field is required for text_response."))
    \o When(action.cardId # 0 /\ action.cardId \notin Range(context.cardIds),
            ErrCard("cardId is invalid. It must be one of the existing card IDs.",
                    action.cardId, context.cardIds))

\* The switch of validateAction: an unlisted responseType adds no error.
TagErrors(action, context) ==
    CASE action.responseType = "plan_creation" -> validatePlanCreation(action.plan)
      [] action.responseType = "dom_action" -> validateDomAction(action.domAction, context)
      [] action.responseType = "execute_js_code" -> validateExecuteJsCode(action.code)
      [] action.responseType = "filter_spreadsheet" -> validateFilterSpreadsheet(action.args)
      [] action.responseType = "clarification_request" ->
            validateClarificationRequest(action.clarification)
      [] action.responseType = "text_response" -> validateTextResponse(action, context)
      [] OTHER -> <<>>

ActionTitle(action) ==
    IF action.plan # Null /\ action.plan.title # "" THEN action.plan.title
    ELSE IF action.domAction # Null /\ action.domAction.toolName # ""
         THEN action.domAction.toolName
         ELSE action.responseType

NoErrors == [title |-> "", thought |-> "", lines |-> <<>>]

\* A validator that does not look at the thought.
validateAction_ThoughtOptional(action, context) ==
    IF action.responseType = "dom_action" /\ validateDomActionThrows(action.domAction)
    THEN [threw |-> TRUE, isValid |-> FALSE, errors |-> NoErrors]
    ELSE LET allErrors ==
                 When(action.responseType = "",
                      Err("The responseType field is mandatory for every action."))
                 \o TagErrors(action, context)
         IN  IF Len(allErrors) > 0
             THEN [threw |-> FALSE, isValid |-> FALSE,
                   errors |-> [title |-> ActionTitle(action),
                               thought |-> IF action.thought = "" THEN "N/A"
                                           ELSE action.thought,
                               lines |-> allErrors]]
             ELSE [threw |-> FALSE, isValid |-> TRUE, errors |-> NoErrors]

\* validateAction: threw is TRUE when the call throws instead of returning.
validateAction(action, context) ==
    IF action.responseType = "dom_action" /\ validateDomActionThrows(action.domAction)
    THEN [threw |-> TRUE, isValid |-> FALSE, errors |-> NoErrors]
    ELSE LET allErrors ==
                 When(action.thought = "",
                      Err("The thought field is mandatory for every action."))
                 \o When(action.responseType = "",
                         Err("The responseType field is mandatory for every action."))
                 \o TagErrors(action, context)
         IN  IF Len(allErrors) > 0
             THEN [threw |-> FALSE, isValid |-> FALSE,
                   errors |-> [title |-> ActionTitle(action),
                               thought |-> IF action.thought = "" THEN "N/A"
                                           ELSE action.thought,
                               lines |-> allErrors]]
             ELSE [threw |-> FALSE, isValid |-> TRUE, errors |-> NoErrors]

(***************************************************************************)
(* Model-authored transformation code.  A function body is one of a few    *)
(* concrete bodies; RunBody is what calling it yields.                     *)
(***************************************************************************)
BodyDropFirst == "return data.slice(1);"
BodyEmpty == "return [];"
BodyNoReturn == "data.filter(r => r.Region);"
BodyThrows == "throw new Error('boom');"
BodyUsesUtil == "return data.filter(r => _util.parseNumber(r.Sales) > 0);"
BodyNonObjects == "return data.map(r => r.Region);"

\* The value the compiled function returns on `data`; hasUtil says whether
\* the caller binds the `_util` parameter.
RunBody(body, data, hasUtil) ==
    CASE body = BodyDropFirst ->
            [kind |-> "rows", rows |-> IF data = <<>> THEN <<>> ELSE Tail(data)]
      [] body = BodyEmpty -> [kind |-> "rows", rows |-> <<>>]
      [] body = BodyNoReturn -> [kind |-> "undefined", rows |-> <<>>]
      [] body = BodyThrows -> [kind |-> "throw", rows |-> <<>>]
      [] body = BodyUsesUtil ->
            IF hasUtil
            THEN [kind |-> "rows",
                  rows |-> SelectSeq(data,
                      LAMBDA r : LET v == parseNumericValue(Get(r, "Sales"))
                                 IN  v # Null /\ v.num > 0)]
            ELSE [kind |-> "throw", rows |-> <<>>]
      [] body = BodyNonObjects ->
            IF data = <<>> THEN [kind |-> "rows", rows |-> <<>>]
            ELSE [kind |-> "nonobjects", rows |-> <<>>]

\* executeJavaScriptDataTransform: new Function('data', body)(data), then the
\* shape checks; ok is FALSE when it throws.
executeJavaScriptDataTransform(data, jsFunctionBody) ==
    LET result == RunBody(jsFunctionBody, data, FALSE)
    IN  IF result.kind = "rows" THEN [ok |-> TRUE, data |-> result.rows]
        ELSE [ok |-> FALSE, data |-> <<>>]

\* A preparation step that returns every plan it is given.
DryRunPasses_Always(jsFunctionBody, sampleData) == TRUE

\* The dry run of generateDataPreparationPlan: new Function('data', '_util',
\* body)(sampleData, mockUtil) and Array.isArray of what it returns.
DryRunPasses(jsFunctionBody, sampleData) ==
    RunBody(jsFunctionBody, sampleData, TRUE).kind \in {"rows", "nonobjects"}

\* The error a failed dry run leaves in lastError: what the body threw, or
\* the error thrown for a result that is no array.
DryRunError(jsFunctionBody, sampleData) ==
    IF RunBody(jsFunctionBody, sampleData, TRUE).kind = "throw" THEN "boom"
    ELSE "Generated function did not return an array."

(***************************************************************************)
(* The state.                                                              *)
(*   store  the zustand AppStore (AppState and the UI flags the handlers   *)
(*          write)                                                         *)
(*   hc     where the running handler stands ("idle": none is running)     *)
(*   turn   the locals of handleChatMessage                                *)
(*   pipe   the locals of runAnalysisPipeline and who awaits it            *)
(*   up     the locals of handleFileUpload / generateDataPreparationPlan   *)
(*   nextCardId  the next fresh card identifier                            *)
(*   obs    what an observer of the run records: calls made and actions    *)
(*          executed; no handler reads it                                  *)
(*   call   a call of one of the functions of dataProcessor and the plan   *)
(*          generator taken by itself: its arguments, where it stands and  *)
(*          its result (NoCall while the application runs)                 *)
(***************************************************************************)
VARIABLES store, hc, turn, pipe, up, nextCardId, obs, call

vars == <<store, hc, turn, pipe, up, nextCardId, obs, call>>

NoCall == [fn |-> "none"]

initialAppState ==
    [currentView |-> "file_upload", isBusy |-> FALSE, progressMessages |-> <<>>,
     csvData |-> Null, columnProfiles |-> <<>>, analysisCards |-> <<>>,
     chatHistory |-> <<>>, finalSummary |-> "", aiCoreAnalysisSummary |-> "",
     dataPreparationPlan |-> Null, initialDataSample |-> <<>>,
     spreadsheetFilterFunction |-> "", aiFilterExplanation |-> "",
     pendingClarification |-> Null]

\* The fields of the store outside AppState.
UiState(isApiKeySet) ==
    [isApiKeySet |-> isApiKeySet, isSettingsModalOpen |-> FALSE,
     isSpreadsheetVisible |-> TRUE, isAiFiltering |-> FALSE]

Merge(a, b) ==
    [k \in DOMAIN a \cup DOMAIN b |-> IF k \in DOMAIN b THEN b[k] ELSE a[k]]

NoTurn ==
    [message |-> "", i |-> 0, selfCorrectionFeedback |-> <<>>,
     response |-> <<>>, idx |-> 0]

NoPipe ==
    [plans |-> <<>>, data |-> <<>>, isChatRequest |-> FALSE, status |-> <<>>,
     cards |-> <<>>, caller |-> ""]

NoUpload == [file |-> Null, parsedData |-> <<>>, i |-> 0, lastError |-> ""]

\* What the observer has recorded.
\*   turns, uploads    user messages and uploads so far
\*   outcome           "" outside a chat turn, "running" during it, then how
\*                     it ended: "success", "validation_failure",
\*                     "request_failure" (an awaited memory or model call
\*                     threw), "execution_failure" (the validator or an
\*                     action threw) or "clarification"
\*   requests          generateChatResponse calls of the current turn
\*   feedbacks         the selfCorrectionFeedback of each of these calls
\*   failures          the validation errors of each rejected response
\*   rejectedHadValid  a rejected response held an action that was valid
\*   context           the card ids the accepted response was validated with
\*   snapshot          the data fields of the store when the turn started
\*   errorsBefore      the error messages in chatHistory when it started
\*   started, finished the indexes of the actions begun and completed
\*   discarded         the pending clarification a new chat message dropped
\*   answered          the clarification and the option of the last answer
\*   dryRunOk          code bodies whose dry run on the sample passed
\*   fullRuns          code bodies run on the full dataset (prepFullRuns:
\*                     those of handleFileUpload)
\*   prepReturned      the plan generateDataPreparationPlan returned
\*   prepPrompts       the lastError in the prompt of each preparation request
\*   prepFailures      the error of each failed preparation attempt
\*   planRuns          the executePlan calls of runAnalysisPipeline: the plan
\*                     and the dataset of each
\*   transformed       the last successful execute_js_code: the plans of the
\*                     cards before it, its result and the planRuns before it
\*   emptyStops        uploads stopped by 'Dataset empty after transformation.'
\*   analyses          handleInitialAnalysis invocations
\*   planRequests      generateAnalysisPlans calls
NoObs ==
    [turns |-> 0, uploads |-> 0, outcome |-> "", requests |-> 0, feedbacks |-> <<>>,
     failures |-> <<>>, rejectedHadValid |-> FALSE, context |-> <<>>,
     snapshot |-> Null, errorsBefore |-> 0, started |-> <<>>, finished |-> <<>>,
     discarded |-> Null, answered |-> Null,
     dryRunOk |-> {}, fullRuns |-> {}, prepFullRuns |-> {},
     prepReturned |-> Null, prepPrompts |-> <<>>, prepFailures |-> <<>>,
     planRuns |-> <<>>, transformed |-> Null,
     emptyStops |-> 0, analyses |-> 0, planRequests |-> 0]

\* A user input starts a new record; the counters go on.
NewRecord(o) == [NoObs EXCEPT !.turns = o.turns, !.uploads = o.uploads]

\* get().addProgress(message, type)
addProgress(st, text, type) ==
    [st EXCEPT !.progressMessages = Append(@, [text |-> text, type |-> type])]

ChatMessage(sender, type, text) ==
    [sender |-> sender, type |-> type, text |-> text, isError |-> FALSE, cardId |-> 0]

addChat(st, msg) == [st EXCEPT !.chatHistory = Append(@, msg)]

CardIdsOf(cards) == [k \in DOMAIN cards |-> cards[k].id]

\* The fields of the store that the actions of a chat batch write; of
\* chatHistory, the messages that are not error messages.
DataFields(st) ==
    [analysisCards |-> st.analysisCards, csvData |-> st.csvData,
     columnProfiles |-> st.columnProfiles,
     spreadsheetFilterFunction |-> st.spreadsheetFilterFunction,
     aiFilterExplanation |-> st.aiFilterExplanation,
     pendingClarification |-> st.pendingClarification,
     chatHistory |-> SelectSeq(st.chatHistory, LAMBDA m : ~m.isError)]

(***************************************************************************)
(* runAnalysisPipeline.  processPlan runs for every plan up to its first   *)
(* await when the pipeline is called; the awaited summary and memory calls *)
(* of the plans then complete in any order.                                *)
(***************************************************************************)
\* processPlan calls executePlan(data, plan) for every plan, in order.
Ran(o, plans, data) ==
    [o EXCEPT !.planRuns = @ \o [k \in DOMAIN plans |-> [plan |-> plans[k], data |-> data]]]

\* A processPlan that goes on to the summary of an empty result.
StartStatus_KeepEmpty(data, plan) ==
    IF ~executePlan(data, plan).ok THEN "failed" ELSE "summary"

\* Where processPlan stands after its synchronous part.
StartStatus(data, plan) ==
    LET aggregated == executePlan(data, plan)
    IN  IF ~aggregated.ok THEN "failed"
        ELSE IF Len(aggregated.rows) = 0 THEN "skipped"
        ELSE "summary"

RECURSIVE StartProgress(_, _, _)
StartProgress(st, plans, data) ==
    IF plans = <<>> THEN st
    ELSE LET status == StartStatus(data, Head(plans))
             executing == addProgress(st, "Executing plan", "system")
             after ==
                 CASE status = "failed" ->
                          addProgress(executing, "Error executing plan", "error")
                   [] status = "skipped" ->
                          addProgress(executing, "Skipping due to empty result", "error")
                   [] OTHER -> addProgress(executing, "AI is summarizing", "system")
         IN  StartProgress(after, Tail(plans), data)

\* The store and the pipeline's locals once runAnalysisPipeline(plans, data,
\* isChatRequest) has reached its await.
PipelineCalled(st, plans, data, isChatRequest, caller) ==
    [store |-> StartProgress(st, plans, data),
     pipe |-> [plans |-> plans, data |-> data, isChatRequest |-> isChatRequest,
               status |-> [k \in DOMAIN plans |-> StartStatus(data, plans[k])],
               cards |-> [k \in DOMAIN plans |-> Null],
               caller |-> caller]]

NewCard(id, plan, aggregatedData) ==
    [id |-> id, plan |-> plan, aggregatedData |-> aggregatedData,
     summary |-> "summary", displayChartType |-> plan.chartType,
     isDataVisible |-> FALSE,
     topN |-> IF plan.chartType # "scatter" /\ Len(aggregatedData) > 15 THEN 8 ELSE 0,
     hideOthers |-> plan.chartType # "scatter" /\ Len(aggregatedData) > 15,
     filter |-> Null]

\* generateSummary of plan k returns: the card is added to analysisCards and
\* vectorStore.addDocument is awaited.
SummaryReturns(k) ==
    /\ hc = "pipeline"
    /\ k \in DOMAIN pipe.status
    /\ pipe.status[k] = "summary"
    /\ LET newCard == NewCard(nextCardId, pipe.plans[k],
                              executePlan(pipe.data, pipe.plans[k]).rows)
       IN  /\ store' = [store EXCEPT !.analysisCards = Append(@, newCard)]
           /\ pipe' = [pipe EXCEPT !.status[k] = "memory", !.cards[k] = newCard]
    /\ nextCardId' = nextCardId + 1
    /\ UNCHANGED <<hc, turn, up, obs>>
    /\ UNCHANGED call

AddDocumentReturns(k) ==
    /\ hc = "pipeline"
    /\ k \in DOMAIN pipe.status
    /\ pipe.status[k] = "memory"
    /\ store' = addProgress(store, "Saved as View", "system")
    /\ pipe' = [pipe EXCEPT !.status[k] = "done"]
    /\ UNCHANGED <<hc, turn, up, nextCardId, obs>>
    /\ UNCHANGED call

\* addDocument rejects: processPlan's catch reports it and returns null; the
\* card stays in analysisCards.
AddDocumentThrows(k) ==
    /\ hc = "pipeline"
    /\ k \in DOMAIN pipe.status
    /\ pipe.status[k] = "memory"
    /\ store' = addProgress(store, "Error executing plan", "error")
    /\ pipe' = [pipe EXCEPT !.status[k] = "failed", !.cards[k] = Null]
    /\ UNCHANGED <<hc, turn, up, nextCardId, obs>>
    /\ UNCHANGED call

\* A pipeline that does not wait for its plans.
AllSettled_Eager(p) == TRUE

\* await Promise.all(plans.map(processPlan)) resumes.
AllSettled(p) == \A k \in DOMAIN p.status : p.status[k] \in {"done", "failed", "skipped"}

createdCards(p) == SelectSeq(p.cards, LAMBDA c : c # Null)

\* The chat requests and the pipelines without cards return at once; the
\* initial analysis goes on to the core summary.
PipelineSettles ==
    /\ hc = "pipeline"
    /\ AllSettled(pipe)
    /\ hc' = IF ~pipe.isChatRequest /\ Len(createdCards(pipe)) > 0
             THEN "pipeline_core" ELSE "pipeline_return"
    /\ store' = IF ~pipe.isChatRequest /\ Len(createdCards(pipe)) > 0
                THEN addProgress(store, "AI is forming its core understanding", "system")
                ELSE store
    /\ UNCHANGED <<turn, pipe, up, nextCardId, obs>>
    /\ UNCHANGED call

\* generateCoreAnalysisSummary returns (it catches its own errors).
CoreSummaryReturns ==
    /\ hc = "pipeline_core"
    /\ store' = addChat([store EXCEPT !.aiCoreAnalysisSummary = "core summary"],
                        ChatMessage("ai", "ai_thinking", "core summary"))
    /\ hc' = "pipeline_core_memory"
    /\ UNCHANGED <<turn, pipe, up, nextCardId, obs>>
    /\ UNCHANGED call

CoreMemoryReturns ==
    /\ hc = "pipeline_core_memory"
    /\ store' = addProgress(store, "AI is looking for key insights", "system")
    /\ hc' = "pipeline_insight"
    /\ UNCHANGED <<turn, pipe, up, nextCardId, obs>>
    /\ UNCHANGED call

\* vectorStore.addDocument of the core summary rejects: the pipeline rejects.
CoreMemoryThrows ==
    /\ hc = "pipeline_core_memory"
    /\ hc' = "pipeline_throw"
    /\ UNCHANGED <<store, turn, pipe, up, nextCardId, obs>>
    /\ UNCHANGED call

\* generateProactiveInsights returns an insight or null.
ProactiveInsightReturns(hasInsight) ==
    /\ hc = "pipeline_insight"
    /\ store' = IF hasInsight
                THEN addChat(store, [ChatMessage("ai", "ai_proactive_insight", "insight")
                                        EXCEPT !.cardId = createdCards(pipe)[1].id])
                ELSE store
    /\ hc' = "pipeline_final"
    /\ UNCHANGED <<turn, pipe, up, nextCardId, obs>>
    /\ UNCHANGED call

FinalSummaryReturns ==
    /\ hc = "pipeline_final"
    /\ store' = addProgress([store EXCEPT !.finalSummary = "final summary"],
                            "Overall summary generated.", "system")
    /\ hc' = "pipeline_return"
    /\ UNCHANGED <<turn, pipe, up, nextCardId, obs>>
    /\ UNCHANGED call

\* The chat messages a caller derives from the created cards.
CardMessages(cards) ==
    [k \in DOMAIN cards |->
        [ChatMessage("ai", "ai_message", "summary") EXCEPT !.cardId = cards[k].id]]

(***************************************************************************)
(* What the model may answer in a chat turn.                               *)
(***************************************************************************)
PlanSalesByRegion == Plan("bar", "Sales by Region", "sum", "Region", "Sales")

PlanCountByRegion == Plan("bar", "Count by Region", "count", "Region", "")

TextResponse == [Action("text_response", "explain") EXCEPT !.text = "hello"]

TextNoThought == [Action("text_response", "") EXCEPT !.text = "hello"]

PlanCreation(plan) == [Action("plan_creation", "chart it") EXCEPT !.plan = plan]

\* A well-formed plan_creation that carries no thought.
PlanNoThought == [PlanCreation(PlanSalesByRegion) EXCEPT !.thought = ""]

ShowCardData(cardId) ==
    [Action("dom_action", "show the rows") EXCEPT
        !.domAction = [toolName |-> "showCardData",
                       args |-> [DomArgs(cardId) EXCEPT !.visible = "true"]]]

ExecuteJsCode(body) ==
    [Action("execute_js_code", "reshape") EXCEPT
        !.code = [explanation |-> "reshape the rows", jsFunctionBody |-> body]]

FilterSpreadsheet ==
    [Action("filter_spreadsheet", "filter") EXCEPT !.args = [query |-> "east only"]]

ClarificationRequest ==
    [Action("clarification_request", "ask") EXCEPT
        !.clarification =
            [question |-> "Which metric?",
             pendingPlan |-> Plan("bar", "", "", "Region", ""),
             targetProperty |-> "valueColumn",
             options |-> [isArray |-> TRUE,
                          items |-> <<[label |-> "Sales", value |-> "Sales"]>>]]]

\* Asks which column to group a sum by; the pending plan names no valueColumn.
ClarifyGroupBy ==
    [Action("clarification_request", "ask") EXCEPT
        !.clarification =
            [question |-> "Grouped by what?",
             pendingPlan |-> Plan("bar", "", "sum", "", ""),
             targetProperty |-> "groupByColumn",
             options |-> [isArray |-> TRUE,
                          items |-> <<[label |-> "Region", value |-> "Region"]>>]]]

\* A responseType of the response schema that handleChatMessage has no case for.
ProceedToAnalysis == Action("proceed_to_analysis", "go on")

\* Names a card that does not exist in any session of the model.
ShowMissingCardData == ShowCardData(99)

\* response.actions of one model response: single actions of every kind, and
\* longer batches in which a valid action comes with an invalid one, with one
\* whose execution throws, with a clarification request, or with an awaited
\* one.
BatchPool ==
    {<<TextResponse>>, <<PlanCreation(PlanCountByRegion)>>, <<ShowCardData(1)>>,
     <<ExecuteJsCode(BodyDropFirst)>>, <<FilterSpreadsheet>>, <<ClarificationRequest>>,
     <<ProceedToAnalysis>>, <<TextNoThought>>, <<ClarifyGroupBy>>,
     <<TextResponse, ShowMissingCardData>>,
     <<TextResponse, PlanNoThought>>,
     <<TextResponse, ExecuteJsCode(BodyThrows)>>,
     <<ClarificationRequest, TextResponse>>,
     <<PlanCreation(PlanSalesByRegion), ShowCardData(1)>>,
     <<ExecuteJsCode(BodyDropFirst), ShowCardData(1)>>,
     <<ExecuteJsCode(BodyDropFirst), PlanCreation(PlanSalesByRegion)>>,
     <<FilterSpreadsheet, TextResponse>>,
     <<TextResponse, ClarificationRequest, ShowCardData(1)>>,
     <<ShowCardData(1), TextResponse, ExecuteJsCode(BodyThrows)>>}

Batches == {actions \in BatchPool : Len(actions) <= MaxBatchLen}

(***************************************************************************)
(* handleChatMessage.                                                      *)
(***************************************************************************)
\* A catch block after which isBusy is left set.
ChatCatch_StaysBusy(st, errorMessage) ==
    addChat(addProgress(st, errorMessage, "error"),
            [ChatMessage("ai", "ai_message", errorMessage) EXCEPT !.isError = TRUE])

\* The catch block of handleChatMessage, then set({ isBusy: false }).
ChatCatch(st, errorMessage) ==
    [addChat(addProgress(st, errorMessage, "error"),
             [ChatMessage("ai", "ai_message", errorMessage) EXCEPT !.isError = TRUE])
        EXCEPT !.isBusy = FALSE]

\* A loop that steps over every other action.
NextIndex_Skip(idx) == idx + 2

\* for (const action of response.actions): the index after idx.
NextIndex(idx) == idx + 1

\* The user submits a message (ChatPanel.handleSend lets it through only
\* while isBusy is false).
HandleChatMessage(message) ==
    /\ hc = "idle"
    /\ ~store.isBusy
    /\ obs.turns + obs.uploads < MaxInputs
    /\ IF ~store.isApiKeySet
       THEN /\ store' = [addProgress(store, "API Key not set.", "error")
                            EXCEPT !.isSettingsModalOpen = TRUE]
            /\ obs' = [NewRecord(obs) EXCEPT !.turns = @ + 1]
            /\ UNCHANGED <<hc, turn>>
       ELSE /\ store' = [addChat(store, ChatMessage("user", "user_message", message))
                            EXCEPT !.isBusy = TRUE, !.pendingClarification = Null]
            /\ turn' = [NoTurn EXCEPT !.message = message]
            /\ hc' = "chat_search"
            /\ obs' = [NewRecord(obs) EXCEPT
                          !.turns = @ + 1, !.outcome = "running",
                          !.snapshot = DataFields(store'),
                          !.errorsBefore = Len(SelectSeq(store.chatHistory,
                                                         LAMBDA m : m.isError)),
                          !.discarded = store.pendingClarification]
    /\ UNCHANGED <<pipe, up, nextCardId>>
    /\ UNCHANGED call

\* vectorStore.search returns: generateChatResponse is called with the
\* feedback of the loop.
ChatSearchReturns ==
    /\ hc = "chat_search"
    /\ hc' = "chat_request"
    /\ obs' = [obs EXCEPT !.requests = @ + 1,
                          !.feedbacks = Append(@, turn.selfCorrectionFeedback)]
    /\ UNCHANGED <<store, turn, pipe, up, nextCardId>>
    /\ UNCHANGED call

ChatSearchThrows ==
    /\ hc = "chat_search"
    /\ store' = ChatCatch(store, "memory search failed")
    /\ hc' = "idle"
    /\ obs' = [obs EXCEPT !.outcome = "request_failure"]
    /\ UNCHANGED <<turn, pipe, up, nextCardId>>
    /\ UNCHANGED call

\* generateChatResponse throws (transport failure after its retries, or a
\* response that does not parse).
ChatResponseThrows ==
    /\ hc = "chat_request"
    /\ store' = ChatCatch(store, "Failed to get a valid response from the AI.")
    /\ hc' = "idle"
    /\ obs' = [obs EXCEPT !.outcome = "request_failure"]
    /\ UNCHANGED <<turn, pipe, up, nextCardId>>
    /\ UNCHANGED call

\* A filter that looks at the first action only.
ValidationErrors_FirstOnly(actions, cards) ==
    LET first == validateAction(actions[1], [cardIds |-> CardIdsOf(cards)])
    IN  IF first.isValid THEN <<>> ELSE <<first.errors>>

Validations(actions, cards) ==
    [k \in DOMAIN actions |->
        validateAction(actions[k], [cardIds |-> CardIdsOf(cards)])]

\* response.actions.map(validateAction).filter(v => !v.isValid).map(v => v.errors)
ValidationErrors(actions, cards) ==
    LET invalid == SelectSeq(Validations(actions, cards), LAMBDA v : ~v.isValid)
    IN  [k \in DOMAIN invalid |-> invalid[k].errors]

\* A feedback that is written once and never replaced.
NextFeedback_Stale(previous, validationErrors) ==
    IF previous = <<>> THEN validationErrors ELSE previous

\* selfCorrectionFeedback = `Your last response failed. Fix these errors:
\* ${validationErrors.join('\n')}`: the errors of this response alone.
NextFeedback(previous, validationErrors) == validationErrors

Rejected(o, attempt, validationErrors, hasValid) ==
    [o EXCEPT !.failures = Append(@, [attempt |-> attempt, errors |-> validationErrors]),
              !.rejectedHadValid = hasValid]

\* generateChatResponse returns a batch: it is validated as a whole, then
\* rejected (retry or give up) or accepted for execution.
ChatResponseReturns(actions) ==
    /\ hc = "chat_request"
    /\ LET validations == Validations(actions, store.analysisCards)
           validationErrors == ValidationErrors(actions, store.analysisCards)
           hasValid == \E k \in DOMAIN validations : validations[k].isValid
       IN  IF \E k \in DOMAIN validations : validations[k].threw
           THEN /\ store' = ChatCatch(store, "TypeError")
                /\ hc' = "idle"
                /\ obs' = [obs EXCEPT !.outcome = "execution_failure"]
                /\ UNCHANGED turn
           ELSE IF Len(validationErrors) > 0
           THEN IF turn.i = LastAttempt
                THEN /\ store' = ChatCatch(store, "AI failed to provide a valid action after multiple attempts.")
                     /\ hc' = "idle"
                     /\ obs' = [Rejected(obs, turn.i + 1, validationErrors, hasValid)
                                   EXCEPT !.outcome = "validation_failure"]
                     /\ UNCHANGED turn
                ELSE /\ store' = addProgress(store, "AI response invalid. Retrying", "system")
                     /\ hc' = "chat_search"
                     /\ turn' = [turn EXCEPT
                                    !.selfCorrectionFeedback =
                                        NextFeedback(@, validationErrors),
                                    !.i = @ + 1]
                     /\ obs' = Rejected(obs, turn.i + 1, validationErrors, hasValid)
           ELSE /\ hc' = "chat_exec"
                /\ turn' = [turn EXCEPT !.response = actions, !.idx = 1]
                /\ obs' = [obs EXCEPT !.context = CardIdsOf(store.analysisCards)]
                /\ UNCHANGED store
    /\ UNCHANGED <<pipe, up, nextCardId>>
    /\ UNCHANGED call

\* if (action.thought) get().addProgress(`AI Thought: ...`)
Thought(st, action) ==
    IF action.thought # "" THEN addProgress(st, "AI Thought", "system") ELSE st

CurrentAction == turn.response[turn.idx]

Executing(responseType) ==
    /\ hc = "chat_exec"
    /\ turn.idx \in DOMAIN turn.response
    /\ CurrentAction.responseType = responseType

Started(o, idx) == [o EXCEPT !.started = Append(@, idx)]

Finished(o, idx) == [o EXCEPT !.finished = Append(@, idx)]

\* The loop is past the last action: set({ isBusy: false }); return.
ChatTurnCompletes ==
    /\ hc = "chat_exec"
    /\ turn.idx \notin DOMAIN turn.response
    /\ store' = [store EXCEPT !.isBusy = FALSE]
    /\ hc' = "idle"
    /\ obs' = [obs EXCEPT !.outcome = "success"]
    /\ UNCHANGED <<turn, pipe, up, nextCardId>>
    /\ UNCHANGED call

ExecTextResponse ==
    /\ Executing("text_response")
    /\ store' = IF CurrentAction.text # ""
                THEN addChat(Thought(store, CurrentAction),
                             [ChatMessage("ai", "ai_message", CurrentAction.text)
                                 EXCEPT !.cardId = CurrentAction.cardId])
                ELSE Thought(store, CurrentAction)
    /\ turn' = [turn EXCEPT !.idx = NextIndex(@)]
    /\ obs' = Finished(Started(obs, turn.idx), turn.idx)
    /\ UNCHANGED <<hc, pipe, up, nextCardId>>
    /\ UNCHANGED call

\* A responseType the switch has no case for: nothing but the thought.
ExecUnhandled ==
    /\ hc = "chat_exec"
    /\ turn.idx \in DOMAIN turn.response
    /\ CurrentAction.responseType \notin
          {"text_response", "plan_creation", "dom_action", "execute_js_code",
           "filter_spreadsheet", "clarification_request"}
    /\ store' = Thought(store, CurrentAction)
    /\ turn' = [turn EXCEPT !.idx = NextIndex(@)]
    /\ obs' = Finished(Started(obs, turn.idx), turn.idx)
    /\ UNCHANGED <<hc, pipe, up, nextCardId>>
    /\ UNCHANGED call

\* case 'plan_creation': the plan-start message, then the awaited pipeline.
ExecPlanCreation ==
    /\ Executing("plan_creation")
    /\ IF CurrentAction.plan # Null /\ store.csvData # Null
       THEN LET announced ==
                    addChat(Thought(store, CurrentAction),
                            ChatMessage("ai", "ai_plan_start", "Okay, creating a chart"))
                called == PipelineCalled(announced, <<CurrentAction.plan>>,
                                         store.csvData.data, TRUE, "plan_creation")
            IN  /\ store' = called.store
                /\ pipe' = called.pipe
                /\ hc' = "pipeline"
                /\ obs' = Ran(Started(obs, turn.idx), called.pipe.plans, called.pipe.data)
                /\ UNCHANGED turn
       ELSE /\ store' = Thought(store, CurrentAction)
            /\ turn' = [turn EXCEPT !.idx = NextIndex(@)]
            /\ obs' = Finished(Started(obs, turn.idx), turn.idx)
            /\ UNCHANGED <<hc, pipe>>
    /\ UNCHANGED <<up, nextCardId>>
    /\ UNCHANGED call

\* runAnalysisPipeline returns to the plan_creation case.
PlanCreationReturns ==
    /\ hc = "pipeline_return"
    /\ pipe.caller = "plan_creation"
    /\ store' = [store EXCEPT !.chatHistory = @ \o CardMessages(createdCards(pipe))]
    /\ hc' = "chat_exec"
    /\ turn' = [turn EXCEPT !.idx = NextIndex(@)]
    /\ pipe' = NoPipe
    /\ obs' = Finished(obs, turn.idx)
    /\ UNCHANGED <<up, nextCardId>>
    /\ UNCHANGED call

\* The set(prev => ...) of executeDomAction on one card.
ApplyTool(card, domAction) ==
    CASE domAction.toolName = "changeCardChartType" ->
            [card EXCEPT !.displayChartType = domAction.args.newType]
      [] domAction.toolName = "showCardData" ->
            [card EXCEPT !.isDataVisible = (domAction.args.visible = "true")]
      [] domAction.toolName = "filterCard" ->
            [card EXCEPT !.filter =
                IF Len(domAction.args.values.items) > 0
                THEN [column |-> domAction.args.column,
                      values |-> domAction.args.values.items]
                ELSE Null]
      [] OTHER -> card

executeDomAction(st, domAction) ==
    LET progressed == addProgress(st, "AI is performing action", "system")
        cardId == IF domAction.args = Null THEN 0 ELSE domAction.args.cardId
    IN  [progressed EXCEPT !.analysisCards =
            [k \in DOMAIN @ |-> IF @[k].id = cardId THEN ApplyTool(@[k], domAction)
                                ELSE @[k]]]

ExecDomAction ==
    /\ Executing("dom_action")
    /\ store' = IF CurrentAction.domAction # Null
                THEN executeDomAction(Thought(store, CurrentAction), CurrentAction.domAction)
                ELSE Thought(store, CurrentAction)
    /\ turn' = [turn EXCEPT !.idx = NextIndex(@)]
    /\ obs' = Finished(Started(obs, turn.idx), turn.idx)
    /\ UNCHANGED <<hc, pipe, up, nextCardId>>
    /\ UNCHANGED call

\* A regeneration that keeps the cards and runs no plan.
RegenerateCalled_KeepCards(st, newData) ==
    PipelineCalled([addProgress(st, "Data has changed. Regenerating all analysis cards", "system")
                       EXCEPT !.isBusy = TRUE, !.finalSummary = ""],
                   <<>>, newData, TRUE, "regenerate")

\* regenerateAnalyses up to its await: the cards are dropped and their plans
\* are run again on the new data.
RegenerateCalled(st, newData) ==
    LET existingPlans == [k \in DOMAIN st.analysisCards |-> st.analysisCards[k].plan]
        cleared == [addProgress(st, "Data has changed. Regenerating all analysis cards", "system")
                       EXCEPT !.isBusy = TRUE, !.analysisCards = <<>>, !.finalSummary = ""]
    IN  PipelineCalled(cleared, existingPlans, newData, TRUE, "regenerate")

\* case 'execute_js_code': the body runs on the full dataset; on success the
\* dataset and its profiles are replaced and the analyses regenerated.
ExecJsCode ==
    /\ Executing("execute_js_code")
    /\ IF CurrentAction.code # Null /\ CurrentAction.code.jsFunctionBody # ""
            /\ store.csvData # Null
       THEN \E body \in {CurrentAction.code.jsFunctionBody} :
            \E result \in {executeJavaScriptDataTransform(store.csvData.data, body)} :
            \E replaced \in {[Thought(store, CurrentAction) EXCEPT
                                 !.csvData.data = result.data,
                                 !.columnProfiles = profileData(result.data)]} :
            \E called \in {RegenerateCalled(replaced, result.data)} :
                IF result.ok
                THEN /\ obs' = [Ran(Started(obs, turn.idx), called.pipe.plans, called.pipe.data)
                                   EXCEPT !.fullRuns = @ \cup {body},
                                          !.transformed =
                                              [before |-> [k \in DOMAIN store.analysisCards |->
                                                              store.analysisCards[k].plan],
                                               result |-> result.data,
                                               runsBefore |-> Len(obs.planRuns)]]
                     /\ IF Len(called.pipe.plans) > 0
                        THEN /\ store' = called.store
                             /\ pipe' = called.pipe
                             /\ hc' = "pipeline"
                             /\ UNCHANGED turn
                        ELSE /\ store' = [called.store EXCEPT !.isBusy = FALSE]
                             /\ hc' = "regenerated"
                             /\ UNCHANGED <<pipe, turn>>
                ELSE /\ store' = ChatCatch(Thought(store, CurrentAction),
                                           "AI-generated data transformation failed")
                     /\ hc' = "idle"
                     /\ obs' = [Started(obs, turn.idx) EXCEPT
                                   !.fullRuns = @ \cup {body},
                                   !.outcome = "execution_failure"]
                     /\ UNCHANGED <<pipe, turn>>
       ELSE /\ store' = Thought(store, CurrentAction)
            /\ turn' = [turn EXCEPT !.idx = NextIndex(@)]
            /\ obs' = Finished(Started(obs, turn.idx), turn.idx)
            /\ UNCHANGED <<hc, pipe>>
    /\ UNCHANGED <<up, nextCardId>>
    /\ UNCHANGED call

\* runAnalysisPipeline returns to regenerateAnalyses.
RegenerateReturns ==
    /\ hc = "pipeline_return"
    /\ pipe.caller = "regenerate"
    /\ IF Len(createdCards(pipe)) > 0
       THEN /\ hc' = "regenerate_summary"
            /\ UNCHANGED store
       ELSE /\ hc' = "regenerated"
            /\ store' = [store EXCEPT !.isBusy = FALSE]
    /\ pipe' = NoPipe
    /\ UNCHANGED <<turn, up, nextCardId, obs>>
    /\ UNCHANGED call

\* generateFinalSummary returns to regenerateAnalyses; its finally block.
RegenerateSummaryReturns ==
    /\ hc = "regenerate_summary"
    /\ store' = [store EXCEPT !.finalSummary = "final summary", !.isBusy = FALSE]
    /\ hc' = "regenerated"
    /\ UNCHANGED <<turn, pipe, up, nextCardId, obs>>
    /\ UNCHANGED call

\* await get().regenerateAnalyses(newData) resumes in the execute_js_code case.
ExecJsCodeReturns ==
    /\ hc = "regenerated"
    /\ hc' = "chat_exec"
    /\ turn' = [turn EXCEPT !.idx = NextIndex(@)]
    /\ obs' = Finished(obs, turn.idx)
    /\ UNCHANGED <<store, pipe, up, nextCardId>>
    /\ UNCHANGED call

\* case 'filter_spreadsheet': handleNaturalLanguageQuery up to its await, or
\* its early return when the key or the data is missing.
ExecFilterSpreadsheet ==
    /\ Executing("filter_spreadsheet")
    /\ IF CurrentAction.args # Null /\ CurrentAction.args.query # ""
       THEN LET filtering == addProgress(Thought(store, CurrentAction),
                                         "AI is filtering data explorer.", "system")
            IN  IF ~store.isApiKeySet \/ store.csvData = Null
                THEN /\ store' = [addProgress(filtering,
                                     "Cannot perform AI query: API Key/data missing.", "error")
                                     EXCEPT !.isSpreadsheetVisible = TRUE]
                     /\ turn' = [turn EXCEPT !.idx = NextIndex(@)]
                     /\ obs' = Finished(Started(obs, turn.idx), turn.idx)
                     /\ UNCHANGED hc
                ELSE /\ store' = addProgress(
                                    [filtering EXCEPT !.isAiFiltering = TRUE,
                                                      !.spreadsheetFilterFunction = "",
                                                      !.aiFilterExplanation = ""],
                                    "AI is processing your data query", "system")
                     /\ hc' = "filter_query"
                     /\ obs' = Started(obs, turn.idx)
                     /\ UNCHANGED turn
       ELSE /\ store' = Thought(store, CurrentAction)
            /\ turn' = [turn EXCEPT !.idx = NextIndex(@)]
            /\ obs' = Finished(Started(obs, turn.idx), turn.idx)
            /\ UNCHANGED hc
    /\ UNCHANGED <<pipe, up, nextCardId>>
    /\ UNCHANGED call

\* generateFilterFunction returns; the finally block; back in the case.
FilterReturns ==
    /\ hc = "filter_query"
    /\ store' = [addProgress([store EXCEPT
                                 !.spreadsheetFilterFunction = "return row.Region === 'East';",
                                 !.aiFilterExplanation = "rows of the East region"],
                             "AI filter applied", "system")
                    EXCEPT !.isAiFiltering = FALSE, !.isSpreadsheetVisible = TRUE]
    /\ hc' = "chat_exec"
    /\ turn' = [turn EXCEPT !.idx = NextIndex(@)]
    /\ obs' = Finished(obs, turn.idx)
    /\ UNCHANGED <<pipe, up, nextCardId>>
    /\ UNCHANGED call

\* generateFilterFunction throws: handleNaturalLanguageQuery catches it.
FilterThrows ==
    /\ hc = "filter_query"
    /\ store' = [addProgress(store, "AI query failed", "error")
                    EXCEPT !.isAiFiltering = FALSE, !.isSpreadsheetVisible = TRUE]
    /\ hc' = "chat_exec"
    /\ turn' = [turn EXCEPT !.idx = NextIndex(@)]
    /\ obs' = Finished(obs, turn.idx)
    /\ UNCHANGED <<pipe, up, nextCardId>>
    /\ UNCHANGED call

\* A clarification request that leaves isBusy set.
ClarificationRequested_Busy(st, clarification) ==
    [addChat(st, ChatMessage("ai", "ai_clarification", clarification.question))
        EXCEPT !.pendingClarification = clarification]

\* The two set calls of case 'clarification_request': the request becomes
\* pending, the question is shown, isBusy is cleared.
ClarificationRequested(st, clarification) ==
    [addChat(st, ChatMessage("ai", "ai_clarification", clarification.question))
        EXCEPT !.pendingClarification = clarification, !.isBusy = FALSE]

\* case 'clarification_request': these sets, then return.
ExecClarificationRequest ==
    /\ Executing("clarification_request")
    /\ IF CurrentAction.clarification # Null
       THEN /\ store' = ClarificationRequested(Thought(store, CurrentAction),
                                               CurrentAction.clarification)
            /\ hc' = "idle"
            /\ obs' = [Finished(Started(obs, turn.idx), turn.idx)
                          EXCEPT !.outcome = "clarification"]
            /\ UNCHANGED turn
       ELSE /\ store' = Thought(store, CurrentAction)
            /\ turn' = [turn EXCEPT !.idx = NextIndex(@)]
            /\ obs' = Finished(Started(obs, turn.idx), turn.idx)
            /\ UNCHANGED hc
    /\ UNCHANGED <<pipe, up, nextCardId>>
    /\ UNCHANGED call

(***************************************************************************)
(* handleClarificationResponse.                                            *)
(***************************************************************************)
\* JSON.parse(userChoice.value) of the 'merge' target: the plan fragment, or
\* Null when the text is no JSON object (JSON.parse throws).
MergeFragment == "{\"valueColumn\":\"Sales\",\"aggregation\":\"avg\"}"

ParseFragment(value) ==
    IF value = MergeFragment THEN [valueColumn |-> "Sales", aggregation |-> "avg"]
    ELSE Null

\* A completion that drops the user's choice.
CompletedPlan_Unfilled(pendingClarification, userChoice) ==
    [pendingClarification.pendingPlan EXCEPT !.title = userChoice.label,
                                             !.aggregation = "count"]

\* completedPlan: the pending plan with the chosen value, then the defaults.
CompletedPlan(pendingClarification, userChoice) ==
    LET filled ==
            IF pendingClarification.targetProperty = "merge"
            THEN Merge(pendingClarification.pendingPlan, ParseFragment(userChoice.value))
            ELSE Merge(pendingClarification.pendingPlan,
                       [k \in {pendingClarification.targetProperty} |-> userChoice.value])
        titled == Merge(filled, [title |-> userChoice.label])
        aggregated ==
            IF titled.aggregation = ""
            THEN [titled EXCEPT !.aggregation =
                     IF titled.valueColumn # "" THEN "sum" ELSE "count"]
            ELSE titled
    IN  IF aggregated.chartType = "" THEN [aggregated EXCEPT !.chartType = "bar"]
        ELSE aggregated

\* The user picks one of the offered options.
HandleClarificationResponse(userChoice) ==
    /\ hc = "idle"
    /\ ~store.isBusy
    /\ obs.turns + obs.uploads < MaxInputs
    /\ store.pendingClarification # Null
    /\ store.csvData # Null
    /\ LET pendingClarification == store.pendingClarification
           entered == [addChat(store, ChatMessage("user", "user_message", userChoice.label))
                          EXCEPT !.isBusy = TRUE, !.pendingClarification = Null]
       IN  IF pendingClarification.targetProperty = "merge"
                /\ ParseFragment(userChoice.value) = Null
           THEN /\ store' = [addChat(addProgress(entered, "Error processing clarification",
                                                 "error"),
                                     [ChatMessage("ai", "ai_message", "Sorry, an error occurred")
                                         EXCEPT !.isError = TRUE])
                                EXCEPT !.isBusy = FALSE]
                /\ UNCHANGED <<hc, pipe>>
           ELSE LET completedPlan == CompletedPlan(pendingClarification, userChoice)
                    announced == addChat(entered,
                                    ChatMessage("ai", "ai_plan_start", "Okay, creating a chart"))
                    called == PipelineCalled(announced, <<completedPlan>>,
                                             store.csvData.data, TRUE, "clarification")
                IN  /\ store' = called.store
                    /\ pipe' = called.pipe
                    /\ hc' = "pipeline"
           /\ obs' = [NewRecord(obs) EXCEPT
                         !.turns = @ + 1,
                         !.answered = [clarification |-> pendingClarification,
                                       userChoice |-> userChoice],
                         !.planRuns =
                             IF pendingClarification.targetProperty = "merge"
                                 /\ ParseFragment(userChoice.value) = Null
                             THEN <<>>
                             ELSE <<[plan |-> CompletedPlan(pendingClarification, userChoice),
                                     data |-> store.csvData.data]>>]
    /\ UNCHANGED <<turn, up, nextCardId>>
    /\ UNCHANGED call

\* runAnalysisPipeline returns to handleClarificationResponse; its finally.
ClarificationReturns ==
    /\ hc = "pipeline_return"
    /\ pipe.caller = "clarification"
    /\ store' = [store EXCEPT !.chatHistory = @ \o CardMessages(createdCards(pipe)),
                              !.isBusy = FALSE]
    /\ hc' = "idle"
    /\ pipe' = NoPipe
    /\ UNCHANGED <<turn, up, nextCardId, obs>>
    /\ UNCHANGED call

(***************************************************************************)
(* handleFileUpload, generateDataPreparationPlan and handleInitialAnalysis.*)
(***************************************************************************)
\* sanitizeValue: a cell that starts with '=' gets a leading quote.
sanitizeValue(chars) ==
    IF chars # <<>> /\ Head(chars) = "=" THEN <<"'">> \o chars ELSE chars

\* processCsv's complete callback: every cell of every row is stringified
\* and sanitized.
processCsv(rows) ==
    [i \in DOMAIN rows |->
        [key \in DOMAIN rows[i] |-> Cell(sanitizeValue(StringOf(rows[i][key])))]]

Row(region, sales) == [Region |-> Cell(region), Sales |-> Cell(sales)]

\* The files a user uploads: parsable tells whether Papa.parse completes.
FileSales ==
    [name |-> "sales.csv", parsable |-> TRUE,
     rows |-> <<Row(<<"East">>, <<"1", "0">>), Row(<<"West">>, <<"$", "5">>)>>]

FileHeaderOnly == [name |-> "empty.csv", parsable |-> TRUE, rows |-> <<>>]

FileBroken == [name |-> "broken.csv", parsable |-> FALSE, rows |-> <<>>]

Files == {FileSales, FileHeaderOnly, FileBroken}

\* The catch block of handleFileUpload.
UploadCatch(st, errorMessage) ==
    [addProgress(st, errorMessage, "error")
        EXCEPT !.isBusy = FALSE, !.currentView = "file_upload"]

\* The user picks a file (the file input is disabled while isBusy).
HandleFileUpload(file) ==
    /\ hc = "idle"
    /\ ~store.isBusy
    /\ obs.turns + obs.uploads < MaxInputs
    /\ store' = addProgress(
                    Merge(store, [initialAppState EXCEPT
                                     !.isBusy = TRUE,
                                     !.csvData = [fileName |-> file.name, data |-> <<>>]]),
                    "Parsing CSV file...", "system")
    /\ up' = [NoUpload EXCEPT !.file = file]
    /\ hc' = "upload_parse"
    /\ obs' = [NewRecord(obs) EXCEPT !.uploads = @ + 1]
    /\ turn' = NoTurn
    /\ UNCHANGED <<pipe, nextCardId>>
    /\ UNCHANGED call

\* processCsv rejects.
ProcessCsvRejects ==
    /\ hc = "upload_parse"
    /\ ~up.file.parsable
    /\ store' = UploadCatch(store, "File Processing Error")
    /\ hc' = "idle"
    /\ up' = NoUpload
    /\ UNCHANGED <<turn, pipe, nextCardId, obs>>
    /\ UNCHANGED call

\* processCsv resolves: with a key the vector store is initialised next;
\* without one the parsed data is shown as it is.
ProcessCsvResolves ==
    /\ hc = "upload_parse"
    /\ up.file.parsable
    /\ LET parsedData == processCsv(up.file.rows)
           parsed == [addProgress(store, "Parsed rows.", "system")
                         EXCEPT !.initialDataSample = Take(parsedData, SampleRows)]
       IN  IF store.isApiKeySet
           THEN /\ store' = parsed
                /\ up' = [up EXCEPT !.parsedData = parsedData]
                /\ hc' = "upload_memory"
           ELSE /\ store' = [addProgress(parsed, "API Key not set. Please add it in settings.",
                                         "error")
                                EXCEPT !.isSettingsModalOpen = TRUE,
                                       !.csvData.data = parsedData,
                                       !.columnProfiles = profileData(parsedData),
                                       !.isBusy = FALSE,
                                       !.currentView = "analysis_dashboard"]
                /\ up' = NoUpload
                /\ hc' = "idle"
    /\ UNCHANGED <<turn, pipe, nextCardId, obs>>
    /\ UNCHANGED call

\* vectorStore.init returns: generateDataPreparationPlan is called.
VectorStoreInitReturns ==
    /\ hc = "upload_memory"
    /\ store' = addProgress(store, "AI is analyzing data for cleaning...", "system")
    /\ hc' = "prep_request"
    /\ obs' = [obs EXCEPT !.prepPrompts = Append(@, up.lastError)]
    /\ UNCHANGED <<turn, pipe, up, nextCardId>>
    /\ UNCHANGED call

VectorStoreInitThrows ==
    /\ hc = "upload_memory"
    /\ store' = UploadCatch(store, "File Processing Error")
    /\ hc' = "idle"
    /\ up' = NoUpload
    /\ UNCHANGED <<turn, pipe, nextCardId, obs>>
    /\ UNCHANGED call

\* A DataPreparationPlan as the model returns it; "" is a null jsFunctionBody.
DataPreparationPlan(jsFunctionBody, outputColumns) ==
    [explanation |-> "prepare the data", jsFunctionBody |-> jsFunctionBody,
     outputColumns |-> outputColumns]

DeclaredColumns ==
    <<[name |-> "Region", type |-> "categorical"], [name |-> "Sales", type |-> "numerical"]>>

PrepPlans ==
    {DataPreparationPlan("", <<>>)}
        \cup {DataPreparationPlan(body, DeclaredColumns) :
                body \in {BodyDropFirst, BodyEmpty, BodyNoReturn, BodyThrows,
                          BodyUsesUtil, BodyNonObjects}}

\* The plans the plan generator may hand to the initial analysis.
AnalysisPlanLists == {<<>>, <<PlanSalesByRegion>>}

\* An upload without the empty-dataset stop.
IsEmptyDataset_Never(data) == FALSE

\* if (dataForAnalysis.data.length === 0) throw ...
IsEmptyDataset(data) == Len(data) = 0

\* handleFileUpload from the return of generateDataPreparationPlan to the
\* await inside handleInitialAnalysis (or to its catch block).
PrepPlanReturned(st, o, parsedData, prepPlan) ==
    LET hasCode == prepPlan.jsFunctionBody # ""
        planned == IF hasCode THEN addProgress(st, "AI Plan", "system") ELSE st
        transformed ==
            IF hasCode THEN executeJavaScriptDataTransform(parsedData, prepPlan.jsFunctionBody)
            ELSE [ok |-> TRUE, data |-> parsedData]
        ran == IF hasCode
               THEN [o EXCEPT !.fullRuns = @ \cup {prepPlan.jsFunctionBody},
                              !.prepFullRuns = @ \cup {prepPlan.jsFunctionBody}]
               ELSE o
    IN  IF ~transformed.ok
        THEN [store |-> UploadCatch(planned, "AI-generated data transformation failed"),
              obs |-> ran, hc |-> "idle"]
        ELSE IF IsEmptyDataset(transformed.data)
        THEN [store |-> UploadCatch(planned, "Dataset empty after transformation."),
              obs |-> [ran EXCEPT !.emptyStops = @ + 1], hc |-> "idle"]
        ELSE [store |->
                addProgress(
                    addProgress(
                        [planned EXCEPT !.csvData.data = transformed.data,
                                        !.columnProfiles = prepPlan.outputColumns,
                                        !.dataPreparationPlan = prepPlan,
                                        !.currentView = "analysis_dashboard",
                                        !.isBusy = TRUE],
                        "Starting main analysis...", "system"),
                    "AI is generating analysis plans...", "system"),
              obs |-> [ran EXCEPT !.analyses = @ + 1, !.planRequests = @ + 1],
              hc |-> "analysis_plans"]

\* One request of generateDataPreparationPlan fails (lastError is kept for
\* the next prompt); after the last attempt the function throws.
PrepAttemptFailed(lastError) ==
    IF up.i + 1 < PrepAttempts
    THEN /\ up' = [up EXCEPT !.i = @ + 1, !.lastError = lastError]
         /\ obs' = [obs EXCEPT !.prepFailures = Append(@, lastError),
                               !.prepPrompts = Append(@, up'.lastError)]
         /\ UNCHANGED <<store, hc>>
    ELSE /\ store' = UploadCatch(store, "AI failed to generate a valid data preparation plan")
         /\ obs' = [obs EXCEPT !.prepFailures = Append(@, lastError)]
         /\ up' = NoUpload
         /\ hc' = "idle"

\* The model's answer to a preparation request parses into a plan: its code
\* is tried on the sample; a plan without code is returned as it is.
PrepResponseReturns(plan) ==
    /\ hc = "prep_request"
    /\ LET sampleData == Take(up.parsedData, SampleRows)
           columns == profileData(up.parsedData)
           prepPlan == IF plan.jsFunctionBody = "" /\ Len(plan.outputColumns) = 0
                       THEN [plan EXCEPT !.outputColumns = columns]
                       ELSE plan
       IN  IF plan.jsFunctionBody # "" /\ ~DryRunPasses(plan.jsFunctionBody, sampleData)
           THEN PrepAttemptFailed(DryRunError(plan.jsFunctionBody, sampleData))
           ELSE LET dried == IF plan.jsFunctionBody # ""
                             THEN [obs EXCEPT !.dryRunOk = @ \cup {plan.jsFunctionBody},
                                              !.prepReturned = prepPlan]
                             ELSE [obs EXCEPT !.prepReturned = prepPlan]
                    next == PrepPlanReturned(store, dried, up.parsedData, prepPlan)
                IN  /\ store' = next.store
                    /\ obs' = next.obs
                    /\ hc' = next.hc
                    /\ up' = NoUpload
    /\ UNCHANGED <<turn, pipe, nextCardId>>
    /\ UNCHANGED call

\* The request fails (transport error after withRetry, or JSON.parse throws).
PrepResponseThrows ==
    /\ hc = "prep_request"
    /\ PrepAttemptFailed("request failed")
    /\ UNCHANGED <<turn, pipe, nextCardId>>
    /\ UNCHANGED call

\* The finally block of handleInitialAnalysis.
AnalysisFinally(st) ==
    addProgress([st EXCEPT !.isBusy = FALSE], "Analysis complete. Ready for chat.", "system")

\* generateAnalysisPlans returns.
AnalysisPlansReturn(plans) ==
    /\ hc = "analysis_plans"
    /\ LET proposed == addProgress(store, "AI proposed plans.", "system")
           called == PipelineCalled(proposed, plans, store.csvData.data, FALSE, "initial")
       IN  IF Len(plans) > 0
           THEN /\ store' = called.store
                /\ pipe' = called.pipe
                /\ hc' = "pipeline"
                /\ obs' = Ran(obs, called.pipe.plans, called.pipe.data)
           ELSE /\ store' = AnalysisFinally(
                                addProgress(proposed,
                                    "AI did not propose any analysis plans.", "error"))
                /\ hc' = "idle"
                /\ UNCHANGED <<pipe, obs>>
    /\ UNCHANGED <<turn, up, nextCardId>>
    /\ UNCHANGED call

AnalysisPlansThrow ==
    /\ hc = "analysis_plans"
    /\ store' = AnalysisFinally(addProgress(store, "Error during analysis", "error"))
    /\ hc' = "idle"
    /\ UNCHANGED <<turn, pipe, up, nextCardId, obs>>
    /\ UNCHANGED call

\* runAnalysisPipeline returns to handleInitialAnalysis.
InitialAnalysisReturns ==
    /\ hc = "pipeline_return"
    /\ pipe.caller = "initial"
    /\ store' = AnalysisFinally(store)
    /\ hc' = "idle"
    /\ pipe' = NoPipe
    /\ UNCHANGED <<turn, up, nextCardId, obs>>
    /\ UNCHANGED call

\* runAnalysisPipeline rejects: the catch block of handleInitialAnalysis.
InitialAnalysisCatches ==
    /\ hc = "pipeline_throw"
    /\ store' = AnalysisFinally(addProgress(store, "Error during analysis", "error"))
    /\ hc' = "idle"
    /\ pipe' = NoPipe
    /\ UNCHANGED <<turn, up, nextCardId, obs>>
    /\ UNCHANGED call

(***************************************************************************)
(* The session.                                                            *)
(***************************************************************************)
\* useAppStore.init: the state of the session kept under CURRENT_SESSION_KEY
\* replaces the initial one.  The kept session of the model is the sales
\* file with the card of its one analysis plan, saved at rest.
RestoredSession ==
    LET data == processCsv(FileSales.rows)
    IN  [initialAppState EXCEPT
            !.currentView = "analysis_dashboard",
            !.csvData = [fileName |-> FileSales.name, data |-> data],
            !.columnProfiles = profileData(data),
            !.analysisCards = <<NewCard(1, PlanSalesByRegion,
                                        executePlan(data, PlanSalesByRegion).rows)>>,
            !.finalSummary = "final summary",
            !.aiCoreAnalysisSummary = "core summary",
            !.initialDataSample = Take(data, SampleRows)]

\* The store once it is created and init has run: no session was kept (with
\* or without an API key in the settings), or the kept one is restored.
Init ==
    /\ \/ \E key \in BOOLEAN : store = Merge(initialAppState, UiState(key))
       \/ store = Merge(RestoredSession, UiState(TRUE))
    /\ hc = "idle"
    /\ turn = NoTurn
    /\ pipe = NoPipe
    /\ up = NoUpload
    /\ nextCardId = Len(store.analysisCards) + 1
    /\ obs = NoObs
    /\ call = NoCall

Messages == {"show sales by region"}

\* The options the chat panel offers for the pending clarification.
OfferedOptions ==
    IF store.pendingClarification = Null THEN {}
    ELSE Range(store.pendingClarification.options.items)

\* What the user does.
UserStep ==
    \/ \E file \in Files : HandleFileUpload(file)
    \/ \E message \in Messages : HandleChatMessage(message)
    \/ \E userChoice \in OfferedOptions : HandleClarificationResponse(userChoice)

\* An awaited call of the running handler returns or throws.
HandlerStep ==
    \/ ProcessCsvRejects
    \/ ProcessCsvResolves
    \/ VectorStoreInitReturns
    \/ VectorStoreInitThrows
    \/ \E plan \in PrepPlans : PrepResponseReturns(plan)
    \/ PrepResponseThrows
    \/ \E plans \in AnalysisPlanLists : AnalysisPlansReturn(plans)
    \/ AnalysisPlansThrow
    \/ \E k \in DOMAIN pipe.status : SummaryReturns(k)
    \/ \E k \in DOMAIN pipe.status : AddDocumentReturns(k)
    \/ \E k \in DOMAIN pipe.status : AddDocumentThrows(k)
    \/ PipelineSettles
    \/ CoreSummaryReturns
    \/ CoreMemoryReturns
    \/ CoreMemoryThrows
    \/ \E hasInsight \in BOOLEAN : ProactiveInsightReturns(hasInsight)
    \/ FinalSummaryReturns
    \/ InitialAnalysisReturns
    \/ InitialAnalysisCatches
    \/ ChatSearchReturns
    \/ ChatSearchThrows
    \/ \E actions \in Batches : ChatResponseReturns(actions)
    \/ ChatResponseThrows
    \/ ExecTextResponse
    \/ ExecPlanCreation
    \/ PlanCreationReturns
    \/ ExecDomAction
    \/ ExecJsCode
    \/ RegenerateReturns
    \/ RegenerateSummaryReturns
    \/ ExecJsCodeReturns
    \/ ExecFilterSpreadsheet
    \/ FilterReturns
    \/ FilterThrows
    \/ ExecClarificationRequest
    \/ ExecUnhandled
    \/ ChatTurnCompletes
    \/ ClarificationReturns

Next == UserStep \/ HandlerStep

Spec == Init /\ [][Next]_vars

\* Every awaited call eventually returns or throws.
FairSpec == Spec /\ WF_vars(HandlerStep)

(***************************************************************************)
(* The plan generator (services/ai/planGenerator.ts, which aiService       *)
(* re-exports to the store): generateAnalysisPlans, one awaited model call *)
(* at a time.  call.pc is where it stands: "stageA", "stageB", "fallback", *)
(* then "returned" or "thrown".                                            *)
(***************************************************************************)
PlanFloor == 4

PlanCap == 12

PlanTitles == <<"A", "B", "C", "D", "E", "F", "G", "H", "I", "J", "K", "L", "M">>

\* Candidate plans as a model proposes them: a count by region under the
\* k-th title; a plan on a column the sample does not have; a plan with an
\* aggregation executePlan throws on; a second plan under the first title.
PlanNumbered(k) == Plan("bar", PlanTitles[k], "count", "Region", "")

PlanNoData(k) == Plan("bar", PlanTitles[k], "count", "Branch", "")

PlanMedian(k) == Plan("bar", PlanTitles[k], "median", "Region", "Sales")

PlanSameTitle(k) == Plan("line", PlanTitles[k], "sum", "Region", "Sales")

PlansUpTo(n) == [k \in 1..n |-> PlanNumbered(k)]

\* What generateCandidatePlans may return for the first request.
CandidateResponses ==
    {<<>>, PlansUpTo(3), PlansUpTo(5), PlansUpTo(PlanCap + 1),
     <<PlanNumbered(1), PlanSameTitle(1), PlanNumbered(3), PlanNumbered(4)>>,
     <<PlanNoData(1), PlanMedian(2), PlanNoData(3), PlanNoData(4), PlanNoData(5)>>,
     <<PlanNoData(1), PlanNumbered(2), PlanMedian(3), PlanNumbered(4)>>}

\* What the fallback request may return.
FallbackResponses == {<<>>, PlansUpTo(2), PlansUpTo(8), PlansUpTo(PlanCap + 1)}

\* The plansWithDataForReview of generateAnalysisPlans: the candidates whose
\* executePlan on the sample returns rows (one that throws is dropped).
PlansWithDataForReview(sampleData, candidatePlans) ==
    SelectSeq(candidatePlans,
              LAMBDA plan : With(executePlan(sampleData, plan),
                                 LAMBDA aggregatedSample :
                                     aggregatedSample.ok /\ aggregatedSample.rows # <<>>))

Retitled(plans) == [k \in DOMAIN plans |-> [plans[k] EXCEPT !.title = "Refined"]]

\* What the quality gate may answer for the plans under review: none, the
\* first (as it is or retitled), the first three (as they are or each under
\* a "plan" key), or all of them.
RefinedResponses(reviewed) ==
    {<<>>, Take(reviewed, 1), Retitled(Take(reviewed, 1)), Take(reviewed, 3),
     [k \in DOMAIN Take(reviewed, 3) |-> [plan |-> reviewed[k]]], reviewed}

\* refineAndConfigurePlans: a plan nested under a "plan" key is taken out.
NormalizedPlans(rawPlans) ==
    [k \in DOMAIN rawPlans |->
        IF "plan" \in DOMAIN rawPlans[k] THEN rawPlans[k].plan ELSE rawPlans[k]]

\* candidatePlans.filter(p => !refinedPlanTitles.has(p.title))
FallbackPlans(finalPlans, candidatePlans) ==
    With({finalPlans[k].title : k \in DOMAIN finalPlans},
         LAMBDA refinedPlanTitles :
             SelectSeq(candidatePlans, LAMBDA p : p.title \notin refinedPlanTitles))

\* finalPlans after the floor of generateAnalysisPlans.
FinalPlans(refinedPlans, candidatePlans) ==
    IF Len(refinedPlans) < PlanFloor /\ Len(candidatePlans) > Len(refinedPlans)
    THEN refinedPlans \o Take(FallbackPlans(refinedPlans, candidatePlans),
                              PlanFloor - Len(refinedPlans))
    ELSE refinedPlans

appVars == <<store, hc, turn, pipe, up, nextCardId, obs>>

GeneratePlansCall ==
    [fn |-> "generateAnalysisPlans", pc |-> "stageA",
     sampleData |-> Take(processCsv(FileSales.rows), 5),
     candidatePlans |-> <<>>, refinedPlans |-> <<>>, path |-> "", result |-> <<>>]

\* generateCandidatePlans(..., 12) returns: no candidates, no candidate with
\* data on the sample, or on to the quality gate.
CandidatePlansReturn(candidatePlans) ==
    /\ call.fn = "generateAnalysisPlans"
    /\ call.pc = "stageA"
    /\ call' =
          IF Len(candidatePlans) = 0
          THEN [call EXCEPT !.pc = "returned", !.path = "no candidates"]
          ELSE IF Len(PlansWithDataForReview(call.sampleData, candidatePlans)) = 0
          THEN [call EXCEPT !.pc = "returned", !.path = "no data",
                            !.candidatePlans = candidatePlans,
                            !.result = Take(candidatePlans, PlanFloor)]
          ELSE [call EXCEPT !.pc = "stageB", !.candidatePlans = candidatePlans]
    /\ UNCHANGED appVars

\* The first request throws: the catch block asks for the fallback.
CandidatePlansThrow ==
    /\ call.fn = "generateAnalysisPlans"
    /\ call.pc = "stageA"
    /\ call' = [call EXCEPT !.pc = "fallback"]
    /\ UNCHANGED appVars

\* refineAndConfigurePlans returns: the floor, then the cap.
RefinedPlansReturn(rawPlans) ==
    /\ call.fn = "generateAnalysisPlans"
    /\ call.pc = "stageB"
    /\ \E refinedPlans \in {NormalizedPlans(rawPlans)} :
          call' = [call EXCEPT !.pc = "returned", !.path = "two-stage",
                               !.refinedPlans = refinedPlans,
                               !.result = Take(FinalPlans(refinedPlans, call.candidatePlans),
                                               PlanCap)]
    /\ UNCHANGED appVars

RefinedPlansThrow ==
    /\ call.fn = "generateAnalysisPlans"
    /\ call.pc = "stageB"
    /\ call' = [call EXCEPT !.pc = "fallback"]
    /\ UNCHANGED appVars

\* return await generateCandidatePlans(columns, sampleData, settings, 8)
FallbackPlansReturn(plans) ==
    /\ call.fn = "generateAnalysisPlans"
    /\ call.pc = "fallback"
    /\ call' = [call EXCEPT !.pc = "returned", !.path = "fallback", !.result = plans]
    /\ UNCHANGED appVars

FallbackPlansThrow ==
    /\ call.fn = "generateAnalysisPlans"
    /\ call.pc = "fallback"
    /\ call' = [call EXCEPT !.pc = "thrown"]
    /\ UNCHANGED appVars

GeneratePlansStep ==
    \/ \E candidatePlans \in CandidateResponses : CandidatePlansReturn(candidatePlans)
    \/ CandidatePlansThrow
    \/ /\ call.fn = "generateAnalysisPlans"
       /\ \E rawPlans \in RefinedResponses(PlansWithDataForReview(call.sampleData,
                                                                  call.candidatePlans)) :
             RefinedPlansReturn(rawPlans)
    \/ RefinedPlansThrow
    \/ \E plans \in FallbackResponses : FallbackPlansReturn(plans)
    \/ FallbackPlansThrow

(***************************************************************************)
(* executePlan taken by itself, on every dataset of up to MaxRows rows of  *)
(* the row pool and every plan of the plan pool.                           *)
(***************************************************************************)
\* Rows of a sales file: regions with a value, an empty, an unparsable and a
\* currency-only cell; group keys that are array indexes; a row without the
\* region column and one whose region reads 'null'.
RowPool ==
    {Row(<<"East">>, <<"1", "0">>), Row(<<"East">>, <<>>), Row(<<"East">>, <<"$">>),
     Row(<<"West">>, <<"x">>), Row(<<"West">>, <<"5">>),
     Row(<<"2", "1">>, <<"5">>), Row(<<"7">>, <<"5">>),
     [Sales |-> Cell(<<"3">>)], Row(<<"n", "u", "l", "l">>, <<"3">>)}

RECURSIVE Datasets(_)
Datasets(n) ==
    IF n = 0 THEN {<<>>}
    ELSE With(Datasets(n - 1), LAMBDA shorter :
             shorter \cup {Append(data, row) : data \in {d \in shorter : Len(d) = n - 1},
                                               row \in RowPool})

PlanPool ==
    {Plan("bar", "Count by Region", "count", "Region", ""),
     Plan("bar", "Count of Sales by Region", "count", "Region", "Sales"),
     Plan("bar", "Sales by Region", "sum", "Region", "Sales"),
     Plan("bar", "Average Sales by Region", "avg", "Region", "Sales"),
     Plan("bar", "Average by Region", "avg", "Region", ""),
     Plan("bar", "Median Sales by Region", "median", "Region", "Sales")}

ExecutePlanCalls ==
    {[fn |-> "executePlan", pc |-> "called", data |-> data, plan |-> plan,
      result |-> <<>>] : data \in Datasets(MaxRows), plan \in PlanPool}

\* executePlan returns its rows or throws.
ExecutePlanReturns ==
    /\ call.fn = "executePlan"
    /\ call.pc = "called"
    /\ \E aggregated \in {executePlan(call.data, call.plan)} :
          call' = [call EXCEPT !.pc = IF aggregated.ok THEN "returned" ELSE "thrown",
                               !.result = aggregated.rows]
    /\ UNCHANGED appVars

(***************************************************************************)
(* applyTopNWithOthers taken by itself, on every list of up to             *)
(* MaxAggregatedRows aggregated rows and every N up to MaxTopN, and        *)
(* applied once more to its own result.                                    *)
(***************************************************************************)
AggregatedRow(key, n, d) == [key |-> <<key>>, value |-> [n |-> n, d |-> d]]

AggregatedPool ==
    {AggregatedRow("East", 10, 1), AggregatedRow("West", 5, 1),
     AggregatedRow("North", 5, 1), AggregatedRow("South", 0, 1),
     AggregatedRow("Mid", 7, 2), AggregatedRow("Others", 3, 1)}

RECURSIVE AggregatedLists(_)
AggregatedLists(n) ==
    IF n = 0 THEN {<<>>}
    ELSE With(AggregatedLists(n - 1), LAMBDA shorter :
             shorter \cup {Append(data, row) : data \in {d \in shorter : Len(d) = n - 1},
                                               row \in AggregatedPool})

ApplyTopNCalls ==
    {[fn |-> "applyTopNWithOthers", pc |-> "called", data |-> data, topN |-> topN,
      result |-> <<>>, again |-> <<>>] :
        data \in AggregatedLists(MaxAggregatedRows), topN \in 1..MaxTopN}

ApplyTopNReturns ==
    /\ call.fn = "applyTopNWithOthers"
    /\ call.pc = "called"
    /\ call' = [call EXCEPT !.pc = "returned",
                            !.result = applyTopNWithOthers(call.data, call.topN)]
    /\ UNCHANGED appVars

ApplyTopNAgain ==
    /\ call.fn = "applyTopNWithOthers"
    /\ call.pc = "returned"
    /\ call' = [call EXCEPT !.pc = "reapplied",
                            !.again = applyTopNWithOthers(call.result, call.topN)]
    /\ UNCHANGED appVars

(***************************************************************************)
(* robustlyParseJsonArray.  A text is the tuple of its characters; a JSON  *)
(* value is a string, an array or an object whose members keep their       *)
(* order.  JSON.stringify and JSON.parse are computed character by         *)
(* character over the texts the model writes: strings, arrays, objects.    *)
(***************************************************************************)
JsonString(chars) == [kind |-> "string", chars |-> chars, items |-> <<>>]

JsonArray(items) == [kind |-> "array", chars |-> <<>>, items |-> items]

\* members: a sequence of [key |-> characters, value |-> JSON value]
JsonObject(members) == [kind |-> "object", chars |-> <<>>, items |-> members]

KeyChartType == <<"c", "h", "a", "r", "t", "T", "y", "p", "e">>

KeyTitle == <<"t", "i", "t", "l", "e">>

Quote == "\""

Backslash == "\\"

\* The grave accent, three of which make a markdown fence.
Backtick == "grave"

IsSpace(c) == c \in {" ", "\n"}

\* JSON.stringify of a string: quotes, backslashes and newlines are escaped.
RECURSIVE Escaped(_)
Escaped(chars) ==
    IF chars = <<>> THEN <<>>
    ELSE (CASE Head(chars) = Quote -> <<Backslash, Quote>>
            [] Head(chars) = Backslash -> <<Backslash, Backslash>>
            [] Head(chars) = "\n" -> <<Backslash, "n">>
            [] OTHER -> <<Head(chars)>>) \o Escaped(Tail(chars))

Quoted(chars) == <<Quote>> \o Escaped(chars) \o <<Quote>>

RECURSIVE JsonStringify(_), StringifyItems(_), StringifyMembers(_)
JsonStringify(value) ==
    CASE value.kind = "string" -> Quoted(value.chars)
      [] value.kind = "array" -> <<"[">> \o StringifyItems(value.items) \o <<"]">>
      [] value.kind = "object" -> <<"{">> \o StringifyMembers(value.items) \o <<"}">>

StringifyItems(items) ==
    IF items = <<>> THEN <<>>
    ELSE JsonStringify(Head(items))
         \o (IF Len(items) > 1 THEN <<",">> ELSE <<>>) \o StringifyItems(Tail(items))

StringifyMembers(members) ==
    IF members = <<>> THEN <<>>
    ELSE Quoted(Head(members).key) \o <<":">> \o JsonStringify(Head(members).value)
         \o (IF Len(members) > 1 THEN <<",">> ELSE <<>>) \o StringifyMembers(Tail(members))

\* JSON.parse: [ok, value, rest] of the longest value read from the front of
\* a text; ok is FALSE where JSON.parse throws a SyntaxError.
ParseFailed == [ok |-> FALSE, value |-> Null, rest |-> <<>>]

RECURSIVE SkipSpace(_)
SkipSpace(text) == IF text # <<>> /\ IsSpace(Head(text)) THEN SkipSpace(Tail(text)) ELSE text

\* The characters of a string literal after its opening quote.
RECURSIVE ParseChars(_, _)
ParseChars(text, read) ==
    IF text = <<>> \/ Head(text) = "\n" THEN ParseFailed
    ELSE IF Head(text) = Quote
    THEN [ok |-> TRUE, value |-> JsonString(read), rest |-> Tail(text)]
    ELSE IF Head(text) = Backslash
    THEN IF Len(text) < 2 THEN ParseFailed
         ELSE IF text[2] \in {Quote, Backslash}
         THEN ParseChars(SubSeq(text, 3, Len(text)), Append(read, text[2]))
         ELSE IF text[2] = "n"
         THEN ParseChars(SubSeq(text, 3, Len(text)), Append(read, "\n"))
         ELSE ParseFailed
    ELSE ParseChars(Tail(text), Append(read, Head(text)))

RECURSIVE ParseValue(_), ParseElements(_, _), ParseMembers(_, _)
ParseValue(text) ==
    With(SkipSpace(text), LAMBDA t :
        IF t = <<>> THEN ParseFailed
        ELSE IF Head(t) = Quote THEN ParseChars(Tail(t), <<>>)
        ELSE IF Head(t) = "["
        THEN With(SkipSpace(Tail(t)), LAMBDA inner :
                 IF inner # <<>> /\ Head(inner) = "]"
                 THEN [ok |-> TRUE, value |-> JsonArray(<<>>), rest |-> Tail(inner)]
                 ELSE ParseElements(inner, <<>>))
        ELSE IF Head(t) = "{"
        THEN With(SkipSpace(Tail(t)), LAMBDA inner :
                 IF inner # <<>> /\ Head(inner) = "}"
                 THEN [ok |-> TRUE, value |-> JsonObject(<<>>), rest |-> Tail(inner)]
                 ELSE ParseMembers(inner, <<>>))
        ELSE ParseFailed)

ParseElements(text, read) ==
    With(ParseValue(text), LAMBDA element :
        IF ~element.ok THEN ParseFailed
        ELSE With(SkipSpace(element.rest), LAMBDA t :
                 IF t = <<>> THEN ParseFailed
                 ELSE IF Head(t) = ","
                 THEN ParseElements(Tail(t), Append(read, element.value))
                 ELSE IF Head(t) = "]"
                 THEN [ok |-> TRUE, value |-> JsonArray(Append(read, element.value)),
                       rest |-> Tail(t)]
                 ELSE ParseFailed))

ParseMembers(text, read) ==
    With(SkipSpace(text), LAMBDA t :
        IF t = <<>> \/ Head(t) # Quote THEN ParseFailed
        ELSE With(ParseChars(Tail(t), <<>>), LAMBDA key :
             IF ~key.ok THEN ParseFailed
             ELSE With(SkipSpace(key.rest), LAMBDA colon :
                  IF colon = <<>> \/ Head(colon) # ":" THEN ParseFailed
                  ELSE With(ParseValue(Tail(colon)), LAMBDA member :
                       IF ~member.ok THEN ParseFailed
                       ELSE With(SkipSpace(member.rest), LAMBDA after :
                            With(Append(read, [key |-> key.value.chars,
                                               value |-> member.value]),
                                 LAMBDA members :
                                IF after = <<>> THEN ParseFailed
                                ELSE IF Head(after) = "," THEN ParseMembers(Tail(after), members)
                                ELSE IF Head(after) = "}"
                                THEN [ok |-> TRUE, value |-> JsonObject(members),
                                      rest |-> Tail(after)]
                                ELSE ParseFailed))))))

JsonParse(text) ==
    With(ParseValue(text), LAMBDA parsed :
        IF parsed.ok /\ SkipSpace(parsed.rest) = <<>> THEN parsed ELSE ParseFailed)

\* content.trim()
RECURSIVE DropSpaceRight(_)
DropSpaceRight(text) ==
    IF text # <<>> /\ IsSpace(text[Len(text)])
    THEN DropSpaceRight(SubSeq(text, 1, Len(text) - 1))
    ELSE text

TrimSpace(text) == DropSpaceRight(SkipSpace(text))

\* content.match(fence (?:json)? \s* ([\s\S]*?) \s* fence): the first fence
\* that a later fence closes; the group starts after the fence, an optional 'json'
\* and white space, and ends before the white space that precedes the
\* nearest closing fence.
IsFenceAt(text, i) ==
    /\ i + 2 <= Len(text)
    /\ \A k \in i..(i + 2) : text[k] = Backtick

GroupStart(text, i) ==
    With(SubSeq(text, i + 3, Len(text)), LAMBDA after :
    With(IF Len(after) >= 4 /\ SubSeq(after, 1, 4) = <<"j", "s", "o", "n">>
         THEN SubSeq(after, 5, Len(after)) ELSE after, LAMBDA body :
        Len(text) - Len(SkipSpace(body)) + 1))

MarkdownMatch(text) ==
    With({i \in DOMAIN text :
             /\ IsFenceAt(text, i)
             /\ \E j \in GroupStart(text, i)..Len(text) : IsFenceAt(text, j)},
         LAMBDA openings :
        IF openings = {} THEN [matched |-> FALSE, group |-> <<>>]
        ELSE With(GroupStart(text, SetMin(openings)), LAMBDA start :
             With(SetMin({j \in start..Len(text) : IsFenceAt(text, j)}), LAMBDA closing :
                 [matched |-> TRUE,
                  group |-> DropSpaceRight(SubSeq(text, start, closing - 1))])))

\* robustlyParseJsonArray: [ok |-> TRUE, array |-> the items], or
\* [ok |-> FALSE, error |-> the message of the Error thrown].
robustlyParseJsonArray(responseText) ==
    With(TrimSpace(responseText), LAMBDA trimmed :
    With(MarkdownMatch(trimmed), LAMBDA markdownMatch :
    With(IF markdownMatch.matched /\ markdownMatch.group # <<>>
         THEN markdownMatch.group ELSE trimmed, LAMBDA content :
    With(JsonParse(content), LAMBDA parsed :
        IF ~parsed.ok
        THEN [ok |-> FALSE, array |-> <<>>, error |-> "could not be parsed as JSON"]
        ELSE IF parsed.value.kind = "array"
        THEN [ok |-> TRUE, array |-> parsed.value.items, error |-> ""]
        ELSE IF parsed.value.kind = "object"
                /\ \E k \in DOMAIN parsed.value.items :
                      parsed.value.items[k].value.kind = "array"
        THEN [ok |-> TRUE,
              array |-> parsed.value.items[
                  SetMin({k \in DOMAIN parsed.value.items :
                             parsed.value.items[k].value.kind = "array"})].value.items,
              error |-> ""]
        ELSE IF parsed.value.kind = "object"
                /\ {KeyChartType, KeyTitle}
                       \subseteq {parsed.value.items[k].key : k \in DOMAIN parsed.value.items}
        THEN [ok |-> TRUE, array |-> <<parsed.value>>, error |-> ""]
        ELSE [ok |-> FALSE, array |-> <<>>,
              error |-> "did not contain a recognizable JSON array"]))))

(***************************************************************************)
(* robustlyParseJsonArray taken by itself, on JSON.stringify of a value    *)
(* inside a markdown fence or bare: arrays of up to MaxPlans plan objects, *)
(* a single plan object, an object that holds the array, a string.         *)
(***************************************************************************)
\* Titles: plain, with a quote, a backslash and a newline, with one
\* backtick, with a fence in it.
TitlePool ==
    {<<"A">>, <<"a", Quote, Backslash, "\n">>, <<"a", Backtick, "b">>,
     <<"a", Backtick, Backtick, Backtick, "b">>}

PlanObject(title) ==
    JsonObject(<<[key |-> KeyChartType, value |-> JsonString(<<"b", "a", "r">>)],
                 [key |-> KeyTitle, value |-> JsonString(title)]>>)

RECURSIVE PlanArrays(_)
PlanArrays(n) ==
    IF n = 0 THEN {<<>>}
    ELSE With(PlanArrays(n - 1), LAMBDA shorter :
             shorter \cup {Append(plans, PlanObject(title)) :
                              plans \in {a \in shorter : Len(a) = n - 1},
                              title \in TitlePool})

\* What is stringified into the response text.
ResponseValues ==
    {JsonArray(plans) : plans \in PlanArrays(MaxPlans)}
        \cup {PlanObject(title) : title \in TitlePool}
        \cup {JsonObject(<<[key |-> <<"n">>, value |-> JsonString(<<"2">>)],
                          [key |-> <<"p", "l", "a", "n", "s">>,
                           value |-> JsonArray(<<PlanObject(title)>>)]>>) :
                   title \in TitlePool}
        \cup {JsonString(<<"n", "o">>), JsonObject(<<>>)}

\* The opening of a markdown fence; <<>> for a text without a fence.
Fences ==
    {<<>>,
     <<Backtick, Backtick, Backtick, "\n">>,
     <<Backtick, Backtick, Backtick, "j", "s", "o", "n", "\n">>}

Fenced(fence, text) ==
    IF fence = <<>> THEN text
    ELSE fence \o text \o <<"\n", Backtick, Backtick, Backtick>>

ParseCalls ==
    {[fn |-> "robustlyParseJsonArray", pc |-> "called", value |-> value, fence |-> fence,
      responseText |-> Fenced(fence, JsonStringify(value)),
      result |-> [ok |-> FALSE, array |-> <<>>, error |-> ""]] :
        value \in ResponseValues, fence \in Fences}

\* robustlyParseJsonArray returns the array or throws.
RobustlyParseReturns ==
    /\ call.fn = "robustlyParseJsonArray"
    /\ call.pc = "called"
    /\ \E parsed \in {robustlyParseJsonArray(call.responseText)} :
          call' = [call EXCEPT !.pc = IF parsed.ok THEN "returned" ELSE "thrown",
                               !.result = parsed]
    /\ UNCHANGED appVars

(***************************************************************************)
(* validatePlanCreation and isValidPlan taken by themselves, on the same   *)
(* plan: every combination of present and missing fields, for the scatter, *)
(* the combo, an aggregated and an unknown chart type.                     *)
(***************************************************************************)
ValidatorPlans ==
    {Null} \cup
    {[Plan(chartType, title, aggregation, groupByColumn, valueColumn) EXCEPT
         !.xValueColumn = xValueColumn, !.yValueColumn = yValueColumn] :
        chartType \in {"", "bar", "scatter", "combo", "table"},
        title \in {"", "T"},
        aggregation \in {"", "sum", "count", "median"},
        groupByColumn \in {"", "Region"},
        valueColumn \in {"", "Sales"},
        xValueColumn \in {"", "Sales"},
        yValueColumn \in {"", "Profit"}}

ValidatorCalls ==
    {[fn |-> "validatePlanCreation", pc |-> "called", plan |-> plan,
      errors |-> <<>>, accepted |-> FALSE] : plan \in ValidatorPlans}

\* Both validators have returned on the plan.
ValidatorsReturn ==
    /\ call.fn = "validatePlanCreation"
    /\ call.pc = "called"
    /\ call' = [call EXCEPT !.pc = "returned",
                            !.errors = validatePlanCreation(call.plan),
                            !.accepted = isValidPlan(call.plan)]
    /\ UNCHANGED appVars

(***************************************************************************)
(* withRetry(fn, retries) taken by itself: given tells whether retries was *)
(* passed, events are the calls of fn, their failures and the delays in    *)
(* the order they happen.  The value fn resolves with, and the error it    *)
(* rejects with, is the number of the attempt; 0 stands for undefined.     *)
(***************************************************************************)
DefaultRetries == 2

MaxRetries == 3

WithRetryCalls ==
    {[fn |-> "withRetry", pc |-> "called", given |-> FALSE, retries |-> DefaultRetries,
      i |-> 0, lastError |-> 0, events |-> <<>>, result |-> 0, thrown |-> 0]}
    \cup
    {[fn |-> "withRetry", pc |-> "called", given |-> TRUE, retries |-> retries,
      i |-> 0, lastError |-> 0, events |-> <<>>, result |-> 0, thrown |-> 0] :
        retries \in 0 .. MaxRetries}

\* A withRetry that waits after every failure.
DelayBeforeRetry_Always(i, retries) == TRUE

\* if (i < retries - 1): a delay follows the failure of attempt i.
DelayBeforeRetry(i, retries) == i < retries - 1

\* The head of the for loop: the next attempt, or throw lastError.
LoopHead(c) ==
    IF c.i < c.retries
    THEN [c EXCEPT !.pc = "fn", !.events = Append(@, "call")]
    ELSE [c EXCEPT !.pc = "thrown", !.thrown = c.lastError]

WithRetryEnters ==
    /\ call.fn = "withRetry"
    /\ call.pc = "called"
    /\ call' = LoopHead(call)
    /\ UNCHANGED appVars

\* return await fn(): fn resolves.
FnResolves ==
    /\ call.fn = "withRetry"
    /\ call.pc = "fn"
    /\ call' = [call EXCEPT !.pc = "returned", !.result = call.i + 1]
    /\ UNCHANGED appVars

\* fn rejects: the catch block keeps the error and waits or goes on.
FnRejects ==
    /\ call.fn = "withRetry"
    /\ call.pc = "fn"
    /\ LET caught == [call EXCEPT !.lastError = call.i + 1,
                                  !.events = Append(@, "fail")]
       IN  call' = IF DelayBeforeRetry(call.i, call.retries)
                   THEN [caught EXCEPT !.pc = "delay"]
                   ELSE LoopHead([caught EXCEPT !.i = @ + 1])
    /\ UNCHANGED appVars

\* The setTimeout of the catch block fires.
DelayElapses ==
    /\ call.fn = "withRetry"
    /\ call.pc = "delay"
    /\ call' = LoopHead([call EXCEPT !.i = @ + 1, !.events = Append(@, "delay")])
    /\ UNCHANGED appVars

WithRetryStep == WithRetryEnters \/ FnResolves \/ FnRejects \/ DelayElapses

(***************************************************************************)
(* The session reset of handleNewSession and of handleFileUpload, taken    *)
(* with the auto-save timer.  A storage call acts on the reports when it   *)
(* is made (IndexedDB runs the requests on one store in the order they     *)
(* are made) and its await resumes in a later step.  csv is the shape of   *)
(* csvData in the store ("none", "empty", "rows"), memory whose state the  *)
(* store holds, current whose state the report under CURRENT_SESSION_KEY   *)
(* holds ("none" when there is no such report), archived whether a copy    *)
(* was saved under an archive id, existing what the handler's getReport    *)
(* gave, captured the stateToSave of the running auto-save callback.  A    *)
(* report of the session is there only if an auto-save found rows.         *)
(***************************************************************************)
MaxTicks == 2

SessionResetCalls ==
    {c \in [fn : {"sessionReset"}, handler : {"handleNewSession", "handleFileUpload"},
             hpc : {"called"}, apc : {"idle"}, ticks : {0},
             csv : {"none", "empty", "rows"}, memory : {"previous"},
             current : {"none", "previous"}, archived : {FALSE},
             existing : {"none"}, captured : {"none"}] :
        c.current = "previous" => c.csv = "rows"}

\* if (get().csvData) / if (get().csvData?.data.length > 0)
AsksForExisting(c) ==
    IF c.handler = "handleNewSession" THEN c.csv # "none" ELSE c.csv = "rows"

\* vectorStore.clear(); await deleteReport(CURRENT_SESSION_KEY)
DeleteCalled(c) == [c EXCEPT !.hpc = "deleteReport", !.current = "none"]

\* The handler is called: getReport is awaited, or the delete at once.
SessionResetCalled ==
    /\ call.fn = "sessionReset"
    /\ call.hpc = "called"
    /\ call' = IF AsksForExisting(call)
               THEN [call EXCEPT !.hpc = "getReport", !.existing = call.current]
               ELSE DeleteCalled(call)
    /\ UNCHANGED appVars

\* getReport resumes: the existing session is archived, or the delete.
ExistingSessionReturns ==
    /\ call.fn = "sessionReset"
    /\ call.hpc = "getReport"
    /\ call' = IF call.existing # "none"
               THEN [call EXCEPT !.hpc = "saveReport", !.archived = TRUE]
               ELSE DeleteCalled(call)
    /\ UNCHANGED appVars

\* saveReport of the archive copy resumes.
ArchiveSaved ==
    /\ call.fn = "sessionReset"
    /\ call.hpc = "saveReport"
    /\ call' = DeleteCalled(call)
    /\ UNCHANGED appVars

\* deleteReport resumes: set(initialAppState) and loadReportsList, or the
\* set of handleFileUpload ({...initialAppState, csvData: {data: []}}), with
\* which its reset is over.
CurrentSessionDeleted ==
    /\ call.fn = "sessionReset"
    /\ call.hpc = "deleteReport"
    /\ call' = IF call.handler = "handleNewSession"
               THEN [call EXCEPT !.hpc = "loadReportsList", !.memory = "initial",
                                 !.csv = "none"]
               ELSE [call EXCEPT !.hpc = "done", !.memory = "initial", !.csv = "empty"]
    /\ UNCHANGED appVars

\* loadReportsList resumes: handleNewSession is over.
ReportsListLoaded ==
    /\ call.fn = "sessionReset"
    /\ call.hpc = "loadReportsList"
    /\ call' = [call EXCEPT !.hpc = "done"]
    /\ UNCHANGED appVars

\* The interval fires: with rows in csvData the state is taken and getReport
\* is awaited for createdAt.
AutoSaveFires ==
    /\ call.fn = "sessionReset"
    /\ call.apc = "idle"
    /\ call.ticks < MaxTicks
    /\ call' = IF call.csv = "rows"
               THEN [call EXCEPT !.ticks = @ + 1, !.apc = "getReport",
                                 !.captured = call.memory]
               ELSE [call EXCEPT !.ticks = @ + 1]
    /\ UNCHANGED appVars

\* getReport resumes in the callback: saveReport(currentReport).
AutoSaveGetReturns ==
    /\ call.fn = "sessionReset"
    /\ call.apc = "getReport"
    /\ call' = [call EXCEPT !.apc = "saveReport", !.current = call.captured]
    /\ UNCHANGED appVars

AutoSavePutReturns ==
    /\ call.fn = "sessionReset"
    /\ call.apc = "saveReport"
    /\ call' = [call EXCEPT !.apc = "idle", !.captured = "none"]
    /\ UNCHANGED appVars

SessionResetStep ==
    \/ SessionResetCalled
    \/ ExistingSessionReturns
    \/ ArchiveSaved
    \/ CurrentSessionDeleted
    \/ ReportsListLoaded
    \/ AutoSaveFires
    \/ AutoSaveGetReturns
    \/ AutoSavePutReturns

\* profileData taken by itself, on the datasets of the row pool.
ProfileCalls ==
    {[fn |-> "profileData", pc |-> "called", data |-> data, result |-> <<>>] :
        data \in Datasets(MaxRows)}

ProfileDataReturns ==
    /\ call.fn = "profileData"
    /\ call.pc = "called"
    /\ call' = [call EXCEPT !.pc = "returned", !.result = profileData(call.data)]
    /\ UNCHANGED appVars

\* The calls taken by themselves, from their arguments on.
Calls ==
    {GeneratePlansCall} \cup ExecutePlanCalls \cup ApplyTopNCalls \cup ParseCalls
        \cup ValidatorCalls \cup WithRetryCalls \cup SessionResetCalls
        \cup ProfileCalls

CallInit ==
    /\ store = Merge(initialAppState, UiState(TRUE))
    /\ hc = "idle"
    /\ turn = NoTurn
    /\ pipe = NoPipe
    /\ up = NoUpload
    /\ nextCardId = 1
    /\ obs = NoObs
    /\ call \in Calls

CallNext ==
    \/ GeneratePlansStep
    \/ ExecutePlanReturns
    \/ ApplyTopNReturns
    \/ ApplyTopNAgain
    \/ RobustlyParseReturns
    \/ ValidatorsReturn
    \/ WithRetryStep
    \/ SessionResetStep
    \/ ProfileDataReturns

CallSpec == CallInit /\ [][CallNext]_vars

(***************************************************************************)
(* Properties.                                                             *)
(***************************************************************************)
IsPrefixOfNaturals(s) == \A k \in DOMAIN s : s[k] = k

ErrorMessages(st) == SelectSeq(st.chatHistory, LAMBDA m : m.isError)

TurnEnded == hc = "idle" /\ obs.outcome \notin {"", "running"}

\* C1: a response with an invalid action is not executed.  Whenever an action
\* of the turn has started, every action of the accepted response was valid
\* for the card ids it was validated with; and as long as no action of the
\* turn has started - through every rejected response and every failure - the
\* cards, the dataset, the column profiles, the spreadsheet filter, the
\* pending clarification and the chat messages that are not error messages
\* are those of the start of the turn.
C1_InvalidBatchNotExecuted ==
    /\ obs.started # <<>> =>
          \A k \in DOMAIN turn.response :
              LET v == validateAction(turn.response[k], [cardIds |-> obs.context])
              IN  ~v.threw /\ v.isValid
    /\ (obs.snapshot # Null /\ obs.started = <<>>) => DataFields(store) = obs.snapshot

\* A turn gave up after three rejected responses, the last of which held a
\* valid action beside the invalid one.
C1_Witness ==
    /\ obs.outcome = "validation_failure"
    /\ obs.rejectedHadValid
    /\ obs.started = <<>>

\* C2 as stated: a response rejected on attempt 1 or 2 is followed by exactly
\* one further request.
C2_Original ==
    TurnEnded =>
        \A k \in DOMAIN obs.failures :
            obs.failures[k].attempt <= LastAttempt =>
                obs.requests >= obs.failures[k].attempt + 1

\* C2, amended: a turn makes at most three requests; the k-th rejected
\* response is the answer to the k-th request; each request after the first
\* follows a rejected response (so a rejection causes at most one further
\* request, and none when the memory search before it throws) and carries
\* exactly the validation errors of the response just before it; a
\* rejection on the third attempt ends the turn, not busy, with one more
\* error message than the turn started with and no fourth request.
C2_BoundedRetries ==
    /\ obs.requests <= LastAttempt + 1
    /\ Len(obs.feedbacks) = obs.requests
    /\ Len(obs.failures) <= obs.requests
    /\ obs.requests <= Len(obs.failures) + 1
    /\ \A k \in DOMAIN obs.failures : obs.failures[k].attempt = k
    /\ \A k \in DOMAIN obs.feedbacks :
          obs.feedbacks[k] = IF k = 1 THEN <<>> ELSE obs.failures[k - 1].errors
    /\ hc = "chat_request" => obs.requests = Len(obs.failures) + 1
    /\ obs.outcome = "validation_failure" <=>
          (obs.snapshot # Null /\ Len(obs.failures) = LastAttempt + 1)
    /\ obs.outcome = "validation_failure" =>
          /\ hc = "idle"
          /\ ~store.isBusy
          /\ obs.requests = LastAttempt + 1
          /\ Len(ErrorMessages(store)) = obs.errorsBefore + 1

\* A turn gave up after three requests whose second and third carried
\* different feedback.
C2_Witness ==
    /\ obs.outcome = "validation_failure"
    /\ obs.requests = 3
    /\ obs.feedbacks[2] # obs.feedbacks[3]

\* C3: the actions of an accepted response run one at a time in the order of
\* the response.  The actions started, and those completed, are 1, 2, ... in
\* this order; at most one action is started and not completed, and none
\* while the loop is between two actions, where no pipeline and no filter
\* query is under way either; the awaited card creation of a first
\* plan_creation has added its card by then; a turn that succeeds has
\* completed every action.
C3_SequentialInOrder ==
    /\ IsPrefixOfNaturals(obs.started)
    /\ IsPrefixOfNaturals(obs.finished)
    /\ Len(obs.finished) <= Len(obs.started)
    /\ Len(obs.started) <= Len(obs.finished) + 1
    /\ hc = "chat_exec" =>
          /\ Len(obs.started) = Len(obs.finished)
          /\ turn.idx = Len(obs.finished) + 1
          /\ pipe = NoPipe
          /\ ~store.isAiFiltering
    /\ (/\ hc = "chat_exec"
        /\ Len(obs.finished) = 1
        /\ turn.response[1].responseType = "plan_creation"
        /\ obs.snapshot.csvData # Null
        /\ StartStatus(obs.snapshot.csvData.data, turn.response[1].plan) = "summary")
          => Len(store.analysisCards) = Len(obs.snapshot.analysisCards) + 1
    /\ obs.outcome = "success" => Len(obs.finished) = Len(turn.response)

\* A turn completed a response of two actions whose first created a card.
C3_Witness ==
    /\ obs.outcome = "success"
    /\ Len(obs.finished) = 2
    /\ turn.response[1].responseType = "plan_creation"
    /\ Len(store.analysisCards) > Len(obs.snapshot.analysisCards)

\* C4 as stated: at the end of a turn the accepted response is executed in
\* full or not at all.
C4_Original ==
    (TurnEnded /\ turn.response # <<>>) =>
        Len(obs.finished) \in {0, Len(turn.response)}

\* C4, amended: at the end of a turn the executed actions of the accepted
\* response are a prefix of it, and their effects stay.  The prefix is the
\* whole response when the turn succeeds; it is shorter only when the next
\* action threw (the turn ends as an execution failure) or when its last
\* action is a clarification request (the turn pauses there).
C4_PrefixApplied ==
    (TurnEnded /\ turn.response # <<>>) =>
        /\ IsPrefixOfNaturals(obs.finished)
        /\ Len(obs.finished) <= Len(turn.response)
        /\ \/ /\ obs.outcome = "success"
              /\ Len(obs.finished) = Len(turn.response)
           \/ /\ obs.outcome = "execution_failure"
              /\ Len(obs.started) = Len(obs.finished) + 1
           \/ /\ obs.outcome = "clarification"
              /\ obs.finished # <<>>
              /\ turn.response[Len(obs.finished)].responseType = "clarification_request"
        /\ (obs.finished # <<>> /\ turn.response[1].responseType = "text_response") =>
              Len(DataFields(store).chatHistory) > Len(obs.snapshot.chatHistory)

\* The second action of a response threw after the first was executed.
C4_Witness ==
    /\ TurnEnded
    /\ obs.outcome = "execution_failure"
    /\ obs.finished = <<1>>
    /\ obs.started = <<1, 2>>

\* C5 as stated: code is run on the full dataset only after its dry run on
\* the sample passed.
C5_DryRunBeforeFullRun == obs.fullRuns \subseteq obs.dryRunOk

\* C6: validateAction returns isValid = FALSE for a dom_action whose cardId
\* is none of the context's card ids, and a line of the errors quotes that
\* cardId; for every tool, with or without the tool's other arguments, and
\* for the card ids of every state of a session.
DomTools == {"highlightCard", "changeCardChartType", "showCardData", "filterCard"}

DomActionSamples ==
    {[Action("dom_action", "act on the card") EXCEPT
        !.domAction = [toolName |-> toolName, args |-> args]] :
        toolName \in DomTools,
        args \in {DomArgs(cardId) : cardId \in {1, 2, 3, 99}}
                 \cup {[DomArgs(cardId) EXCEPT !.newType = "pie", !.visible = "true",
                                               !.column = "Region",
                                               !.values = [isArray |-> TRUE,
                                                           items |-> <<"East">>]] :
                          cardId \in {1, 2, 3, 99}}}

C6_UnknownCardRejected ==
    LET context == [cardIds |-> CardIdsOf(store.analysisCards)]
    IN  \A action \in DomActionSamples :
            action.domAction.args.cardId \notin Range(context.cardIds) =>
                LET v == validateAction(action, context)
                IN  /\ ~v.threw
                    /\ ~v.isValid
                    /\ \E k \in DOMAIN v.errors.lines :
                          v.errors.lines[k].cardId = action.domAction.args.cardId

\* In a session with cards, a response naming card 99 was rejected with an
\* error line that quotes 99 and the existing ids.
C6_Witness ==
    /\ store.analysisCards # <<>>
    /\ \E k \in DOMAIN obs.failures :
          \E e \in DOMAIN obs.failures[k].errors :
              \E l \in DOMAIN obs.failures[k].errors[e].lines :
                  /\ obs.failures[k].errors[e].lines[l].cardId = 99
                  /\ obs.failures[k].errors[e].lines[l].cardIds # <<>>

\* C7 as stated: a turn ends in one of four ways.
C7_Original ==
    obs.outcome \in {"", "running", "success", "validation_failure",
                     "request_failure", "clarification"}

\* C7, amended: when every awaited call returns or throws, a turn that has
\* started ends, and isBusy is false when it has: with all actions executed,
\* with a terminal validation failure, with a failed memory or model request,
\* paused for a clarification, or - the fifth way - with an execution
\* failure, when the validator or an action threw.
C7_TurnTerminates ==
    /\ [](TurnEnded => ~store.isBusy)
    /\ (obs.outcome = "running") ~>
          (/\ hc = "idle"
           /\ ~store.isBusy
           /\ obs.outcome \in {"success", "validation_failure", "request_failure",
                               "execution_failure", "clarification"})

\* A turn ended with an execution failure and isBusy cleared.
C7_Witness ==
    /\ hc = "idle"
    /\ obs.outcome = "execution_failure"
    /\ ~store.isBusy

\* C8: when a clarification request is executed the turn ends there: the
\* request is pending, its question is the last chat message, isBusy is
\* false, no handler step is left, no later action of the response has
\* started, and no request was made after the one that brought the response.
C8_ClarificationEndsTurn ==
    /\ obs.outcome = "clarification" =>
          LET asked == turn.response[Len(obs.finished)]
              last == store.chatHistory[Len(store.chatHistory)]
          IN  /\ hc = "idle"
              /\ ~store.isBusy
              /\ asked.responseType = "clarification_request"
              /\ store.pendingClarification = asked.clarification
              /\ last.type = "ai_clarification"
              /\ last.text = asked.clarification.question
              /\ obs.started = obs.finished
              /\ obs.requests = Len(obs.failures) + 1
    /\ \A k \in DOMAIN obs.finished :
          turn.response[k].responseType = "clarification_request" =>
              /\ k = Len(obs.started)
              /\ obs.outcome = "clarification"

\* A clarification request was executed ahead of another action.
C8_Witness ==
    /\ obs.outcome = "clarification"
    /\ obs.finished = <<1>>
    /\ Len(turn.response) = 2

C10_EmptyDatasetStops ==
    /\ hc = "analysis_plans" => Len(store.csvData.data) > 0
    /\ obs.emptyStops > 0 =>
          /\ hc = "idle"
          /\ obs.analyses = 0
          /\ obs.planRequests = 0
          /\ store.analysisCards = <<>>
          /\ store.progressMessages[Len(store.progressMessages)] =
                [text |-> "Dataset empty after transformation.", type |-> "error"]
          /\ ~store.isBusy
          /\ store.currentView = "file_upload"

\* An upload was stopped because its dataset was empty.
C10_Witness == obs.emptyStops > 0 /\ hc = "idle" /\ ~store.isBusy

\* C11: generateDataPreparationPlan makes at most three requests; the first
\* carries no error and each later one carries the error of the attempt just
\* before it (what the dry run threw, or that the function did not return an
\* array); a plan with code is returned only if the dry run of its code on
\* the sample returned an array, and only before a third failure; after
\* three failed attempts the function throws: no plan is returned and the
\* upload ends with the error, not busy, on the upload view.
C11_PrepSelfCorrection ==
    /\ Len(obs.prepPrompts) <= PrepAttempts
    /\ Len(obs.prepFailures) <= Len(obs.prepPrompts)
    /\ hc = "prep_request" => Len(obs.prepPrompts) = Len(obs.prepFailures) + 1
    /\ \A k \in DOMAIN obs.prepPrompts :
          obs.prepPrompts[k] = IF k = 1 THEN "" ELSE obs.prepFailures[k - 1]
    /\ obs.prepReturned # Null =>
          /\ Len(obs.prepFailures) < PrepAttempts
          /\ obs.prepReturned.jsFunctionBody # "" =>
                RunBody(obs.prepReturned.jsFunctionBody, store.initialDataSample,
                        TRUE).kind \in {"rows", "nonobjects"}
    /\ Len(obs.prepFailures) = PrepAttempts =>
          /\ hc = "idle"
          /\ obs.prepReturned = Null
          /\ obs.fullRuns = {}
          /\ store.progressMessages[Len(store.progressMessages)] =
                [text |-> "AI failed to generate a valid data preparation plan",
                 type |-> "error"]
          /\ ~store.isBusy
          /\ store.currentView = "file_upload"

\* A plan with code was returned on the third request, after a dry run that
\* returned no array and one that threw.
C11_Witness ==
    /\ obs.prepFailures = <<"Generated function did not return an array.", "boom">>
    /\ obs.prepReturned # Null
    /\ obs.prepReturned.jsFunctionBody # ""

\* C12 as stated: generateAnalysisPlans returns at most 12 plans on every
\* path.
C12_AtMostCap ==
    (call.fn = "generateAnalysisPlans" /\ call.pc = "returned") =>
        Len(call.result) <= PlanCap

\* C13 as stated: when the quality gate returns fewer than 4 plans the
\* result is its plans followed by the candidates it did not select, in
\* their order, up to 4 plans in all; so with 4 distinct candidates the
\* result has at least 4 plans.
C13_BackfillToFloor ==
    (/\ call.fn = "generateAnalysisPlans"
     /\ call.pc = "returned"
     /\ call.path = "two-stage"
     /\ Len(call.refinedPlans) < PlanFloor) =>
        /\ call.result =
              call.refinedPlans \o
                  Take(SelectSeq(call.candidatePlans,
                                 LAMBDA p : p \notin Range(call.refinedPlans)),
                       PlanFloor - Len(call.refinedPlans))
        /\ Cardinality(Range(call.candidatePlans)) >= PlanFloor =>
              Len(call.result) >= PlanFloor

\* The group key of a row, the rows of a group and the place of a group's
\* first row, as the properties of executePlan speak of them.
KeyOf(row, plan) == StringOf(Get(row, plan.groupByColumn))

RowsOf(data, plan, key) == SelectSeq(data, LAMBDA row : KeyOf(row, plan) = key)

FirstSeen(data, plan, key) ==
    CHOOSE i \in DOMAIN data :
        /\ KeyOf(data[i], plan) = key
        /\ \A j \in 1..(i - 1) : KeyOf(data[j], plan) # key

ExecutePlanReturned == call.fn = "executePlan" /\ call.pc = "returned"

\* C14 as stated: for a count, the value of each result row is the number of
\* rows of its group, with or without a valueColumn.
C14_CountIgnoresValueColumn ==
    (ExecutePlanReturned /\ call.plan.aggregation = "count") =>
        \A k \in DOMAIN call.result :
            call.result[k].value =
                [n |-> Len(RowsOf(call.data, call.plan, call.result[k].key)), d |-> 1]

\* C15: for a sum or an avg, the value of each result row is computed from
\* the rows of its group whose value cell parses (parseNumericValue is not
\* null) and from no other: the sum is the sum of their numbers, the avg
\* that sum over their number, and 0 when there is none.
C15_UnparsableExcluded ==
    (ExecutePlanReturned /\ call.plan.aggregation \in {"sum", "avg"}) =>
        \A k \in DOMAIN call.result :
            LET parsed == SelectSeq(
                    RowsOf(call.data, call.plan, call.result[k].key),
                    LAMBDA row : /\ call.plan.valueColumn # ""
                                 /\ parseNumericValue(Get(row, call.plan.valueColumn)) # Null)
                total == SumSeq([i \in DOMAIN parsed |->
                                    parseNumericValue(Get(parsed[i], call.plan.valueColumn)).num])
                value == call.result[k].value
            IN  /\ value.d > 0
                /\ call.plan.aggregation = "sum" => value = [n |-> total, d |-> 1]
                /\ call.plan.aggregation = "avg" =>
                      IF parsed = <<>> THEN value.n = 0
                      ELSE value.n * Len(parsed) = total * value.d

\* An avg over a group with a parsable, an empty and an unparsable cell came
\* out as the parsable value, beside a group without a parsable cell.
C15_Witness ==
    /\ ExecutePlanReturned
    /\ call.plan = Plan("bar", "Average Sales by Region", "avg", "Region", "Sales")
    /\ call.data = <<Row(<<"East">>, <<>>), Row(<<"East">>, <<"1", "0">>),
                     Row(<<"West">>, <<"x">>)>>
    /\ call.result = <<[key |-> <<"East">>, value |-> [n |-> 10, d |-> 1]],
                       [key |-> <<"West">>, value |-> [n |-> 0, d |-> 1]]>>

\* C16 as stated: one row for each group key of the data, by value
\* descending, rows of equal value in the order their keys first occur.
C16_SortedStable ==
    ExecutePlanReturned =>
        LET keys == {KeyOf(call.data[i], call.plan) : i \in DOMAIN call.data} \ SkippedKeys
        IN  /\ {call.result[k].key : k \in DOMAIN call.result} = keys
            /\ Len(call.result) = Cardinality(keys)
            /\ \A i, j \in DOMAIN call.result :
                  i < j =>
                      /\ ~Greater(call.result[j].value, call.result[i].value)
                      /\ ~Greater(call.result[i].value, call.result[j].value) =>
                            FirstSeen(call.data, call.plan, call.result[i].key)
                                < FirstSeen(call.data, call.plan, call.result[j].key)

\* How often a row occurs in a list, and equality of two fractions.
Count(rows, row) == Cardinality({i \in DOMAIN rows : rows[i] = row})

SameValue(a, b) == a.n * b.d = b.n * a.d

C19_FencedRoundTrip ==
    (/\ call.fn = "robustlyParseJsonArray"
     /\ call.pc # "called"
     /\ call.value.kind = "array"
     /\ call.fence # <<>>) =>
        /\ call.pc = "returned"
        /\ call.result.array = call.value.items

\* C20 as stated: whenever handleChatMessage is about to run a dom_action of
\* the accepted response, the card it names is among analysisCards.
C20_DomActionTargetsPresentCard ==
    (Executing("dom_action") /\ CurrentAction.domAction # Null) =>
        \E k \in DOMAIN store.analysisCards :
            store.analysisCards[k].id = CurrentAction.domAction.args.cardId

C22_BusyThroughTurn ==
    obs.outcome = "running" => store.isBusy

\* C23 as stated: every plan that runAnalysisPipeline has handed to
\* executePlan has a valueColumn unless its aggregation is count.
C23_PlanInvariant ==
    \A k \in DOMAIN obs.planRuns :
        obs.planRuns[k].plan.aggregation # "count" => obs.planRuns[k].plan.valueColumn # ""

\* C24 as stated: on a plan that is not a combo chart, validatePlanCreation
\* reports no error exactly when isValidPlan accepts the plan.
C24_ValidatorsAgree ==
    (/\ call.fn = "validatePlanCreation"
     /\ call.pc = "returned"
     /\ call.plan # Null
     /\ call.plan.chartType # "combo") =>
        (call.errors = <<>>) <=> call.accepted

\* The responseTypes validateAction and handleChatMessage have a case for.
HandledResponseTypes ==
    {"text_response", "plan_creation", "dom_action", "execute_js_code",
     "filter_spreadsheet", "clarification_request"}

\* C25 as stated: validateAction finds invalid every action whose
\* responseType is none of the six handled ones, and no response that
\* handleChatMessage has accepted holds such an action.
C25_UnknownKindRejected ==
    /\ \A actions \in BatchPool : \A k \in DOMAIN actions :
          actions[k].responseType \notin HandledResponseTypes =>
              ~validateAction(actions[k],
                              [cardIds |-> CardIdsOf(store.analysisCards)]).isValid
    /\ hc = "chat_exec" =>
          \A k \in DOMAIN turn.response :
              turn.response[k].responseType \in HandledResponseTypes

\* C26: every card in analysisCards has a non-empty aggregatedData, and a
\* plan whose executePlan result has no rows is never awaiting a summary and
\* never has a card in the pipeline, whichever handler called the pipeline.
C26_NoEmptyCard ==
    /\ \A k \in DOMAIN store.analysisCards :
          store.analysisCards[k].aggregatedData # <<>>
    /\ hc \in {"pipeline", "pipeline_return"} =>
          \A k \in DOMAIN pipe.plans :
              executePlan(pipe.data, pipe.plans[k]).rows = <<>> =>
                  /\ pipe.status[k] \notin {"summary", "memory", "done"}
                  /\ pipe.cards[k] = Null

\* A pipeline has settled in which a plan that executePlan ran without error
\* had no rows: it was skipped and analysisCards holds no card for it.
C26_Witness ==
    /\ hc = "pipeline_return"
    /\ \E k \in DOMAIN pipe.plans :
          /\ executePlan(pipe.data, pipe.plans[k]).ok
          /\ executePlan(pipe.data, pipe.plans[k]).rows = <<>>
          /\ pipe.status[k] = "skipped"
          /\ \A j \in DOMAIN store.analysisCards :
                store.analysisCards[j].plan # pipe.plans[k]

\* Where the card of that id stands in the list cards (0 when absent).
PositionOf(cards, id) ==
    IF \E k \in DOMAIN cards : cards[k].id = id
    THEN CHOOSE k \in DOMAIN cards : cards[k].id = id
    ELSE 0

\* Whether s can be had from t by leaving elements out.
RECURSIVE IsSubsequence(_, _)
IsSubsequence(s, t) ==
    IF s = <<>> THEN TRUE
    ELSE IF t = <<>> THEN FALSE
    ELSE IF Head(s) = Head(t) THEN IsSubsequence(Tail(s), Tail(t))
    ELSE IsSubsequence(s, Tail(t))

\* C27 as stated: the cards a pipeline has added stand in analysisCards in
\* the order of its plans, and once a regeneration is over the plans of the
\* cards are in the relative order they had before it.
C27_CardsInPlanOrder ==
    /\ hc \in {"pipeline", "pipeline_return"} =>
          \A j, k \in DOMAIN pipe.cards :
              (j < k /\ pipe.cards[j] # Null /\ pipe.cards[k] # Null) =>
                  PositionOf(store.analysisCards, pipe.cards[j].id)
                      < PositionOf(store.analysisCards, pipe.cards[k].id)
    /\ (hc = "regenerated" /\ obs.transformed # Null) =>
          IsSubsequence([k \in DOMAIN store.analysisCards |-> store.analysisCards[k].plan],
                        obs.transformed.before)

\* How many of the events of a withRetry call are of that kind.
EventCount(events, kind) == Cardinality({k \in DOMAIN events : events[k] = kind})

\* C28: withRetry calls fn at most retries times (2 when retries is left
\* out); it returns the value of the first attempt that succeeds and calls
\* fn no more; every delay stands between a failure and the next call of fn;
\* and once retries attempts in a row have failed it throws the error of
\* the last of them.
C28_WithRetry ==
    call.fn = "withRetry" =>
        LET events == call.events
            attempts == EventCount(events, "call")
            failures == EventCount(events, "fail")
        IN  /\ ~call.given => call.retries = 2
            /\ attempts <= call.retries
            /\ call.pc = "returned" =>
                  /\ events[Len(events)] = "call"
                  /\ failures = attempts - 1
                  /\ call.result = attempts
            /\ \A k \in DOMAIN events :
                  events[k] = "delay" =>
                      /\ k > 1 /\ events[k - 1] = "fail"
                      /\ k < Len(events) => events[k + 1] = "call"
                      /\ EventCount(SubSeq(events, 1, k), "fail") < call.retries
            /\ call.pc = "delay" => failures < call.retries
            /\ (call.pc = "thrown" /\ call.retries > 0) =>
                  /\ attempts = call.retries
                  /\ failures = call.retries
                  /\ events[Len(events)] = "fail"
                  /\ call.thrown = call.retries
            /\ (failures = call.retries /\ call.pc # "called") => call.pc = "thrown"

\* With the default of two attempts both failed: one delay between them,
\* none after the second, and the second error is thrown.
C28_Witness ==
    /\ call.fn = "withRetry"
    /\ ~call.given
    /\ call.pc = "thrown"
    /\ call.events = <<"call", "fail", "delay", "call", "fail">>
    /\ call.thrown = 2

\* C29 as stated: once handleNewSession, or the reset at the start of
\* handleFileUpload, is over, the report under CURRENT_SESSION_KEY does not
\* hold the state of the previous session.
C29_NoStaleSession ==
    (call.fn = "sessionReset" /\ call.hpc = "done") => call.current # "previous"

\* Every row of the dataset has the column and its cell there is empty.
IsEmptyColumn(data, header) ==
    \A i \in DOMAIN data :
        /\ header \in DOMAIN data[i]
        /\ data[i][header].chars = <<>>

\* C30 as stated: profileData gives a column whose every cell is empty the
\* type categorical and uniqueValues = 0.
C30_EmptyColumnProfile ==
    (call.fn = "profileData" /\ call.pc = "returned") =>
        \A k \in DOMAIN call.result :
            IsEmptyColumn(call.data, call.result[k].name) =>
                /\ call.result[k].type = "categorical"
                /\ call.result[k].uniqueValues = 0

====
